---- MODULE Spec2Model ----
(***************************************************************************)
(* Model of the AGROW diagnostic reasoning orchestrator:                   *)
(*   - query routing          (lib/models/Updated_Chatbot/reasoning_engine) *)
(*   - the credential-rotating completion callers                           *)
(*                            (hf_deploy/Chatbot/app.py, hf_deploy/groq_client.py) *)
(*   - the staged reasoning pipelines                                       *)
(*                            (reasoning_engine.py, both copies)            *)
(* Confidences are kept in hundredths (0.7 is 70), as classify rounds to    *)
(* two decimals.                                                            *)
(***************************************************************************)
EXTENDS Integers, Sequences, FiniteSets, TLC

VARIABLES
    query,            \* routing: the words of the query text
    intent,           \* routing: the IntentResult handed to route_query
    mode,             \* routing: what route_query returned
    current_key_idx,  \* call_llm: the module-global rotation cursor
    calls,            \* call_llm: the frame of every running call
    groq,             \* call_groq / call_groq_whisper: the frame of the call
    last_working,     \* call_groq: the key index the previous call succeeded on
    pipe,             \* the reasoning pipeline of one query
    classifier,       \* IntentClassifier.classify: the query and its result
    mapper,           \* PriorityContextMapper: intent, bundle and tiers
    parser,           \* _parse_json_safe: a payload, bare and fenced, and its results
    store,            \* SupabaseClient: the message table, the fallback and the clock
    predict           \* TimeSeries: per-field metadata, lock and job, and the request

vars == <<query, intent, mode, current_key_idx, calls, groq, last_working, pipe,
          classifier, mapper, parser, store, predict>>

routeVars == <<query, intent, mode>>
llmVars == <<current_key_idx, calls>>
groqVars == <<groq, last_working>>
inputVars == <<classifier, mapper, parser>>
serviceVars == <<store, predict>>

-----------------------------------------------------------------------------
(* Bounds *)

MaxWords == 2     \* words in one query
NumKeys == 3      \* credentials in the pool (GROQ_API_KEYS is configuration)
NumCalls == 2     \* completion calls in flight at once
MaxHits == 3      \* pattern hits in one classified query
MaxTiedHits == 5  \* pattern hits in one query on a few intents
MaxIntents == 2   \* the intents hit by a query of up to MaxTiedHits hits

-----------------------------------------------------------------------------
(* Routing: ReasoningEngine.route_query *)

\* The words a query is made of.  Case and inflection matter to the
\* substring tests of route_query, so both are represented.
Vocabulary == {"compare", "Compare", "compared", "difference", "worse", "dry", "yellow"}

\* str.lower() on one word
Lower(w) == IF w = "Compare" THEN "compare" ELSE w

\* s in w, for the two needles route_query searches for
SubstringOf(s, w) ==
    \/ s = w
    \/ s = "compare" /\ w = "compared"

\* s in query.lower()
InQueryLower(s, q) == \E w \in q : SubstringOf(s, Lower(w))

Queries == {q \in SUBSET Vocabulary : Cardinality(q) <= MaxWords}

\* keys of INTENT_PATTERNS (general_query is also the fixed default)
IntentNames == {"vegetation_health", "water_stress", "nutrient_status",
                "pest_disease", "zone_specific", "forecast_query",
                "action_recommendation", "comparison", "field_comparison",
                "general_query"}

ConfidenceLevels == {0, 40, 69, 70, 71, 100}

IntentResults == [primary_intent : IntentNames, confidence : ConfidenceLevels]

_default_response == [primary_intent |-> "general_query", confidence |-> 40]

fast_intents == {"vegetation_health", "water_stress", "nutrient_status"}

FastThreshold == 70

\* the comparison test route_query applies to the query text
IsComparisonQuery(q) == InQueryLower("compare", q) \/ InQueryLower("difference", q)

\* route_query with >= in place of >
route_query_ge(q, i) ==
    IF i.primary_intent \in fast_intents /\ i.confidence >= FastThreshold
    THEN "FAST_LANE"
    ELSE "DEEP_DIVE"

route_query(q, i) ==
    IF i.primary_intent \in fast_intents /\ i.confidence > FastThreshold
    THEN "FAST_LANE"
    ELSE IF IsComparisonQuery(q)
         THEN "DEEP_DIVE"
         ELSE "DEEP_DIVE"

RouteIdle == query = {} /\ intent = _default_response /\ mode = "NONE"

\* process_query is entered with a query; its IntentResult is classify's
ReceiveQuery ==
    /\ mode = "NONE"
    /\ \E q \in Queries, i \in IntentResults :
          /\ query' = q
          /\ intent' = i
    /\ mode' = "ROUTING"
    /\ UNCHANGED <<llmVars, groqVars, pipe, inputVars, serviceVars>>

RouteQuery ==
    /\ mode = "ROUTING"
    /\ mode' = route_query(query, intent)
    /\ UNCHANGED <<query, intent, llmVars, groqVars, pipe, inputVars, serviceVars>>

RouteDone ==
    /\ mode \in {"FAST_LANE", "DEEP_DIVE"}
    /\ query' = {}
    /\ intent' = _default_response
    /\ mode' = "NONE"
    /\ UNCHANGED <<llmVars, groqVars, pipe, inputVars, serviceVars>>

-----------------------------------------------------------------------------
(* Errors of the completion backend *)

\* str(e) of the exceptions the backend raises.  The first two are what a
\* rate-limited credential answers; the other is a generic failure (a
\* timeout is one more generic failure to both callers).
RateLimitTexts == {"Rate_Limit_Exceeded", "Error code: 429"}
GenericTexts == {"Connection error"}
ErrorTexts == RateLimitTexts \cup GenericTexts

\* "rate_limit" in error_str.lower()
HasRateLimitLower(text) == text = "Rate_Limit_Exceeded"
\* "429" in error_str
Has429(text) == text = "Error code: 429"

\* the detection without the "429" test
IsRateLimit_no429(text) == HasRateLimitLower(text)

IsRateLimit(text) == HasRateLimitLower(text) \/ Has429(text)

\* last_error = None
NoError == [key |-> 0, attempt |-> 0, text |-> "None"]

Keys == 0..(NumKeys - 1)

-----------------------------------------------------------------------------
(* get_llm_caller.call_llm: one attempt per key, starting at the global
   cursor.  Calls are threads; a thread can be descheduled between any two
   statements, and always is while it waits for the network. *)

LlmIdleFrame == [pc |-> "idle", attempt |-> 0, key_idx |-> 0, last_error |-> NoError,
                 start_cursor |-> 0, cursor_read |-> 0, cursor_before_write |-> 0,
                 tried |-> <<>>]

LlmIdle == current_key_idx = 0 /\ calls = [c \in 1..NumCalls |-> LlmIdleFrame]

\* call_llm(prompt) is entered: last_error = None, the loop starts
LlmStart(c) ==
    /\ calls[c].pc = "idle"
    /\ calls' = [calls EXCEPT ![c] =
                    [LlmIdleFrame EXCEPT !.pc = "loop",
                                         !.start_cursor = current_key_idx]]
    /\ UNCHANGED <<current_key_idx, routeVars, groqVars, pipe, inputVars, serviceVars>>

\* key_idx = (current_key_idx + attempt) % len(GROQ_API_KEYS), then the request
LlmNextKey(c) ==
    /\ calls[c].pc = "loop"
    /\ calls[c].attempt < NumKeys
    /\ LET k == (current_key_idx + calls[c].attempt) % NumKeys IN
          calls' = [calls EXCEPT ![c].pc = "request",
                                 ![c].key_idx = k,
                                 ![c].cursor_read = current_key_idx,
                                 ![c].tried = Append(@, k)]
    /\ UNCHANGED <<current_key_idx, routeVars, groqVars, pipe, inputVars, serviceVars>>

\* the request succeeded: current_key_idx = (key_idx + 1) % len, return
LlmSuccess(c) ==
    /\ calls[c].pc = "request"
    /\ current_key_idx' = (calls[c].key_idx + 1) % NumKeys
    /\ calls' = [calls EXCEPT ![c].pc = "done",
                              ![c].cursor_before_write = current_key_idx]
    /\ UNCHANGED <<routeVars, groqVars, pipe, inputVars, serviceVars>>

\* the request raised: last_error = e, continue
LlmFailure(c) ==
    /\ calls[c].pc = "request"
    /\ \E t \in ErrorTexts :
          calls' = [calls EXCEPT ![c].pc = "loop",
                                 ![c].last_error = [key |-> calls[c].key_idx,
                                                    attempt |-> calls[c].attempt,
                                                    text |-> t],
                                 ![c].attempt = @ + 1]
    /\ UNCHANGED <<current_key_idx, routeVars, groqVars, pipe, inputVars, serviceVars>>

\* the loop ran out: raise Exception("All keys failed. Last: ...")
LlmAllFailed(c) ==
    /\ calls[c].pc = "loop"
    /\ calls[c].attempt = NumKeys
    /\ calls' = [calls EXCEPT ![c].pc = "failed"]
    /\ UNCHANGED <<current_key_idx, routeVars, groqVars, pipe, inputVars, serviceVars>>

\* the caller has the result; the frame is gone
LlmReturn(c) ==
    /\ calls[c].pc \in {"done", "failed"}
    /\ calls' = [calls EXCEPT ![c] = LlmIdleFrame]
    /\ UNCHANGED <<current_key_idx, routeVars, groqVars, pipe, inputVars, serviceVars>>

-----------------------------------------------------------------------------
(* call_groq and call_groq_whisper: every call walks the pool from its first
   key. *)

max_attempts_per_key == 3
base_backoff == 1

GroqIdleFrame == [fn |-> "none", pc |-> "idle", key_idx |-> 0, attempt |-> 0,
                  last_error |-> NoError, raised |-> NoError,
                  log |-> <<>>, sleeps |-> <<>>]

GroqIdle == groq = GroqIdleFrame /\ last_working = -1

GroqFunctions == {"call_groq", "call_groq_whisper"}

\* the call is entered: last_error = None, enumerate(GROQ_API_KEYS) starts
GroqStart ==
    /\ groq.pc = "idle"
    /\ \E f \in GroqFunctions :
          groq' = [GroqIdleFrame EXCEPT !.fn = f, !.pc = "attempt", !.attempt = 1]
    /\ UNCHANGED <<last_working, routeVars, llmVars, pipe, inputVars, serviceVars>>

\* an outer loop that starts over on the key it has just left
NextKeyFrame_same_key(g) == [g EXCEPT !.attempt = 1]

\* the frame after the inner loop is left for the next key
NextKeyFrame(g) == [g EXCEPT !.key_idx = @ + 1, !.attempt = 1]

\* except Exception as e of the inner loop, with the final raise keeping the
\* first error of the key instead of the one just caught
AttemptFailed_keep_first(g, e) ==
    IF IsRateLimit(e.text)
    THEN NextKeyFrame(g)
    ELSE IF g.attempt < max_attempts_per_key
         THEN [g EXCEPT !.sleeps = Append(@, base_backoff * (2 ^ (g.attempt - 1))),
                        !.attempt = @ + 1]
         ELSE [NextKeyFrame(g) EXCEPT !.last_error = [e EXCEPT !.attempt = 1]]

\* except Exception as e of the inner loop of call_groq (e already logged)
AttemptFailed(g, e) ==
    IF IsRateLimit(e.text)
    THEN NextKeyFrame(g)
    ELSE IF g.attempt < max_attempts_per_key
         THEN [g EXCEPT !.sleeps = Append(@, base_backoff * (2 ^ (g.attempt - 1))),
                        !.attempt = @ + 1]
         ELSE [NextKeyFrame(g) EXCEPT !.last_error = e]

\* except Exception as e of call_groq_whisper
WhisperFailed(g, e) ==
    IF IsRateLimit(e.text)
    THEN NextKeyFrame(g)
    ELSE [NextKeyFrame(g) EXCEPT !.last_error = e]

\* one client.chat.completions.create / audio.transcriptions.create
GroqAttempt ==
    /\ groq.pc = "attempt"
    /\ groq.key_idx < NumKeys
    /\ \/ /\ groq' = [groq EXCEPT !.pc = "returned",
                                  !.log = Append(@, [key |-> groq.key_idx,
                                                     attempt |-> groq.attempt,
                                                     text |-> "ok"])]
          /\ last_working' = groq.key_idx
       \/ /\ \E t \in ErrorTexts :
                LET e == [key |-> groq.key_idx, attempt |-> groq.attempt, text |-> t]
                    logged == [groq EXCEPT !.log = Append(@, e)]
                IN  groq' = IF groq.fn = "call_groq"
                            THEN AttemptFailed(logged, e)
                            ELSE WhisperFailed(logged, e)
          /\ UNCHANGED last_working
    /\ UNCHANGED <<routeVars, llmVars, pipe, inputVars, serviceVars>>

\* the pool is exhausted: raise ValueError(f"... Last error: {last_error}")
GroqExhausted ==
    /\ groq.pc = "attempt"
    /\ groq.key_idx = NumKeys
    /\ groq' = [groq EXCEPT !.pc = "raised", !.raised = groq.last_error]
    /\ UNCHANGED <<last_working, routeVars, llmVars, pipe, inputVars, serviceVars>>

\* the caller has the text or the exception
GroqReturn ==
    /\ groq.pc \in {"returned", "raised"}
    /\ groq' = GroqIdleFrame
    /\ UNCHANGED <<last_working, routeVars, llmVars, pipe, inputVars, serviceVars>>

-----------------------------------------------------------------------------
(* JSON values and payloads *)

\* A JSON value as Python holds it after json.loads.  Every value has the
\* same three fields so that any two can be compared.
Num(n) == [kind |-> "num", num |-> n, str |-> ""]
Str(s) == [kind |-> "str", num |-> 0, str |-> s]
\* True is 1.0, 100 in hundredths
Bool(b) == [kind |-> "bool", num |-> IF b THEN 100 ELSE 0, str |-> ""]
ListVal == [kind |-> "list", num |-> 0, str |-> ""]
DictVal == [kind |-> "dict", num |-> 0, str |-> ""]

\* int, float and bool order among themselves
IsNumber(v) == v.kind \in {"num", "bool"}

\* a >= b and max(a, b) are defined between two numbers and between two
\* strings; anything else is a TypeError.  The only string a confidence
\* takes in this model is "high", so two strings are always equal.
Comparable(a, b) ==
    \/ IsNumber(a) /\ IsNumber(b)
    \/ a.kind = "str" /\ b.kind = "str" /\ a.str = b.str

GreaterEq(a, b) == IF IsNumber(a) THEN a.num >= b.num ELSE TRUE

\* max(a, b): the first argument unless the second is strictly greater
Max(a, b) == IF IsNumber(a) /\ b.num > a.num THEN b ELSE a

\* dict.get(k, dflt)
Get(d, k, dflt) == IF k \in DOMAIN d THEN d[k] ELSE dflt

\* the dicts {k: v for k in a subset of keys}, v one of the values vals[k]
PayloadsOver(vals) ==
    UNION {{f \in [S -> UNION {vals[k] : k \in DOMAIN vals}] :
                \A k \in S : f[k] \in vals[k]} : S \in SUBSET DOMAIN vals}

-----------------------------------------------------------------------------
(* Completion texts and ReasoningEngine._parse_json_safe *)

\* A completion text is a sequence of tokens: "FENCE" three backticks, "json" the
\* language tag, "{" and "}" braces, "BODY" the members of the object whose
\* value is `body`, " " whitespace, "x" any other prose.
EmptyText == [tokens |-> <<>>, body |-> <<>>]
ProseText == [tokens |-> <<"x", "x">>, body |-> <<>>]
PlainText(p) == [tokens |-> <<"{", "BODY", "}">>, body |-> p]
FencedText(p) == [tokens |-> <<"FENCE", "json", " ", "{", "BODY", "}", " ", "FENCE">>, body |-> p]
ChattyText(p) == [tokens |-> <<"x", " ", "{", "BODY", "}", " ", "x">>, body |-> p]
BrokenText(p) == [tokens |-> <<"{", "BODY">>, body |-> p]

CompletionsOf(payloads) ==
    {EmptyText, ProseText}
        \cup {PlainText(p) : p \in payloads}
        \cup {FencedText(p) : p \in payloads}
        \cup {ChattyText(p) : p \in payloads}
        \cup {BrokenText(p) : p \in payloads}

\* seq[a:b] with Python's 0-based, end-exclusive indices
Slice(seq, a, b) == IF b > a THEN SubSeq(seq, a + 1, b) ELSE <<>>

\* seq.find(tok, from): the first 0-based index >= from, or -1
Find(seq, tok, from) ==
    LET hits == {i \in from..(Len(seq) - 1) : seq[i + 1] = tok}
    IN  IF hits = {} THEN -1 ELSE CHOOSE i \in hits : \A j \in hits : i <= j

\* seq.rfind(tok)
RFind(seq, tok) ==
    LET hits == {i \in 0..(Len(seq) - 1) : seq[i + 1] = tok}
    IN  IF hits = {} THEN -1 ELSE CHOOSE i \in hits : \A j \in hits : i >= j

\* text.find of the fence directly followed by the tag json
FindFenceJson(seq) ==
    LET hits == {i \in 0..(Len(seq) - 2) : seq[i + 1] = "FENCE" /\ seq[i + 2] = "json"}
    IN  IF hits = {} THEN -1 ELSE CHOOSE i \in hits : \A j \in hits : i <= j

RECURSIVE LStrip(_)
LStrip(seq) == IF seq # <<>> /\ Head(seq) = " " THEN LStrip(Tail(seq)) ELSE seq

RECURSIVE RStrip(_)
RStrip(seq) ==
    IF seq # <<>> /\ seq[Len(seq)] = " " THEN RStrip(SubSeq(seq, 1, Len(seq) - 1)) ELSE seq

\* str.strip()
Strip(seq) == RStrip(LStrip(seq))

\* the text left after the code-block search of _parse_json_safe
Unfenced(seq) ==
    IF FindFenceJson(seq) >= 0
    THEN LET start == FindFenceJson(seq) + 2
             end == Find(seq, "FENCE", start)
         IN  IF end > start THEN Strip(Slice(seq, start, end)) ELSE seq
    ELSE IF Find(seq, "FENCE", 0) >= 0
         THEN LET start == Find(seq, "FENCE", 0) + 1
                  end == Find(seq, "FENCE", start)
              IN  IF end > start THEN Strip(Slice(seq, start, end)) ELSE seq
         ELSE seq

\* The token sequences that are one JSON object: empty, with members, with a
\* nested object, and with a string value that holds three backticks (once,
\* twice, or followed by the tag).
JsonObjects ==
    {<<"{", "}">>,
     <<"{", "BODY", "}">>,
     <<"{", "BODY", "{", "BODY", "}", "}">>,
     <<"{", "BODY", "FENCE", "BODY", "}">>,
     <<"{", "BODY", "FENCE", "BODY", "FENCE", "BODY", "}">>,
     <<"{", "BODY", "FENCE", "json", "BODY", "}">>}

\* json.loads succeeds
IsJsonObject(seq) == seq \in JsonObjects

\* the slice text[start:end] handed to json.loads, <<>> when there is none
JsonSlice(text) ==
    LET inner == Unfenced(Strip(text.tokens))
        start == Find(inner, "{", 0)
        end == RFind(inner, "}") + 1
    IN  IF start >= 0 /\ end > start THEN Slice(inner, start, end) ELSE <<>>

\* json.loads was reached and did not raise JSONDecodeError
ParseSucceeds(text) == text.tokens # <<>> /\ IsJsonObject(JsonSlice(text))

_parse_json_safe(text, default) ==
    IF ParseSucceeds(text)
    THEN IF JsonSlice(text) = <<"{", "}">> THEN <<>> ELSE text.body
    ELSE default

-----------------------------------------------------------------------------
(* The reasoning pipelines: ReasoningEngine._reason (4 stages),
   _execute_deep_dive (3 stages) and _execute_fast_lane (1 stage).  One step
   per completion call: the call, the parse of its text and everything the
   engine does until the next call. *)

\* what the completion backend may put into each stage's object
ClaimFields == [hypothesis |-> {Str("nitrogen_deficiency")},
                confidence |-> {Num(30), Num(80), Str("high")}]
ValidateFields == [hypothesis |-> {Str("pest_damage")},
                   confidence_updated |-> {Num(60), Num(90)}]
ContradictFields == [contradiction_found |-> {Bool(TRUE), Bool(FALSE)},
                     alternative_hypothesis |-> {Str("water_stress")},
                     alternative_confidence |-> {Num(60), Num(95), Str("high")}]
ConfirmFields == [final_diagnosis |-> {Str("nitrogen_deficiency")},
                  confidence |-> {Num(85)},
                  root_cause |-> {Str("leaching")},
                  evidence_summary |-> {DictVal, ListVal}]
FastFields == [reasoning_trace |-> {Str("soil is dry")},
               diagnosis |-> {Str("low moisture")},
               confidence |-> {Num(90), Str("high")},
               action |-> {Str("irrigate")}]
HypothesisFields == [hypotheses |-> {ListVal}]
AdversaryFields == [surviving_hypothesis |-> {Str("water_stress")},
                    confidence |-> {Num(70)}]
JudgeFields == [final_diagnosis |-> {Str("water_stress")},
                root_cause |-> {Str("no rain")},
                detailed_reasoning |-> {Str("rainfall was low")},
                action_plan |-> {DictVal}]

\* a tier in which no path resolved
EmptyContext == <<>>

StageResult(stage, output, context, confidence, parsed) ==
    [stage |-> stage, output |-> output, context_used |-> DOMAIN context,
     confidence |-> confidence, parsed |-> parsed]

NoStage == StageResult("none", <<>>, EmptyContext, Num(0), FALSE)

Unset == [kind |-> "unset", num |-> 0, str |-> ""]

NoResult == [final_diagnosis |-> Unset, final_confidence |-> Unset,
             causal_chain |-> Unset, root_cause |-> Unset, symptoms |-> Unset,
             recommendation |-> Unset, evidence_summary |-> Unset]

\* no HTTP response has been sent
NoHttp == [status |-> 0, text |-> <<>>, routing_mode |-> "none"]

PipeIdleFrame == [protocol |-> "none", pc |-> "idle",
                  claim |-> NoStage, validation |-> NoStage,
                  contradiction |-> NoStage, confirmation |-> NoStage,
                  current_hypothesis |-> Unset,
                  default_diagnosis |-> Unset, default_conf |-> Unset,
                  result |-> NoResult, exception |-> "none",
                  calls |-> <<>>, text_parsed |-> FALSE,
                  last_error |-> NoError, http |-> NoHttp]

PipeIdle == pipe = PipeIdleFrame

\* str(v)
ToStr(v) == IF v.kind = "str" THEN v ELSE Str("repr")

(* ---- the 4-stage protocol ---- *)

ClaimDefault(text, context) ==
    [initial_claim |-> IF text.tokens # <<>> THEN Str("response[:200]")
                                             ELSE Str("No analysis available"),
     hypothesis |-> Str("general_issue"),
     evidence_cited |-> ListVal,
     confidence |-> Num(50),
     uncertainties |-> ListVal]

_stage_claim(text, context) ==
    LET output == _parse_json_safe(text, ClaimDefault(text, context))
    IN  StageResult("claim", output, context,
                    Get(output, "confidence", Num(50)), ParseSucceeds(text))

ValidateDefault(confidence) ==
    [validation_result |-> Str("neutral"),
     confidence_updated |-> confidence,
     spatial_notes |-> Str("Unable to determine spatial distribution"),
     new_evidence_summary |-> Str("")]

_stage_validate(hypothesis, confidence, text, context) ==
    LET parsed == _parse_json_safe(text, ValidateDefault(confidence))
        output == ("hypothesis" :> hypothesis) @@ parsed
    IN  StageResult("validate", output, context,
                    Get(output, "confidence_updated", confidence), ParseSucceeds(text))

ContradictDefault ==
    [contradiction_found |-> Bool(FALSE),
     contradicting_evidence |-> ListVal,
     alternative_hypothesis |-> Str("none"),
     alternative_confidence |-> Num(0),
     reasoning |-> Str("No strong contradicting evidence found")]

_stage_contradict(hypothesis, confidence, text, context) ==
    LET output == _parse_json_safe(text, ContradictDefault)
    IN  StageResult("contradict", output, context,
                    Get(output, "alternative_confidence", Num(0)), ParseSucceeds(text))

\* a default that goes to the alternative on equal confidences
DefaultDiagnosis_strict(hypothesis_1, conf_1, hypothesis_2, conf_2) ==
    IF IsNumber(conf_1) /\ conf_1.num > conf_2.num THEN hypothesis_1 ELSE hypothesis_2

\* default_diagnosis = hypothesis_1 if conf_1 >= conf_2 else hypothesis_2
DefaultDiagnosis(hypothesis_1, conf_1, hypothesis_2, conf_2) ==
    IF GreaterEq(conf_1, conf_2) THEN hypothesis_1 ELSE hypothesis_2

ConfirmDefault(default_diagnosis, default_conf, context) ==
    [final_diagnosis |-> default_diagnosis,
     confidence |-> default_conf,
     causal_chain |-> Str("default_diagnosis leads to observed symptoms"),
     root_cause |-> default_diagnosis,
     symptoms |-> ListVal,
     evidence_summary |-> DictVal,
     recommendation |-> Str("Further investigation recommended based on available data")]

_stage_confirm(hypothesis_1, conf_1, hypothesis_2, conf_2, text, context) ==
    LET default_diagnosis == DefaultDiagnosis(hypothesis_1, conf_1, hypothesis_2, conf_2)
        default_conf == Max(conf_1, conf_2)
        output == _parse_json_safe(text,
                      ConfirmDefault(default_diagnosis, default_conf, context))
    IN  StageResult("confirm", output, context,
                    Get(output, "confidence", default_conf), ParseSucceeds(text))

\* the ReasoningResult built at the end of _reason
ReasonResult(confirmation) ==
    [final_diagnosis |-> Get(confirmation.output, "final_diagnosis", Str("Undetermined")),
     final_confidence |-> confirmation.confidence,
     causal_chain |-> Get(confirmation.output, "causal_chain", Str("")),
     root_cause |-> Get(confirmation.output, "root_cause", Str("unknown")),
     symptoms |-> Get(confirmation.output, "symptoms", ListVal),
     recommendation |-> Get(confirmation.output, "recommendation", Str("")),
     evidence_summary |-> DictVal]

\* process_query enters one of the protocols
PipeStart ==
    /\ pipe.pc = "idle"
    /\ \E p \in {"four_stage", "deep_dive", "fast_lane"} :
          pipe' = [PipeIdleFrame EXCEPT
                      !.protocol = p,
                      !.pc = CASE p = "four_stage" -> "claim"
                               [] p = "deep_dive" -> "hypothesis"
                               [] OTHER -> "fast_lane"]
    /\ UNCHANGED <<routeVars, llmVars, groqVars, inputVars, serviceVars>>

\* Stage A
StageClaim ==
    /\ pipe.pc = "claim"
    /\ \E text \in CompletionsOf(PayloadsOver(ClaimFields)) :
          pipe' = [pipe EXCEPT !.pc = "validate",
                               !.calls = Append(@, "claim"),
                               !.text_parsed = ParseSucceeds(text),
                               !.claim = _stage_claim(text, EmptyContext)]
    /\ UNCHANGED <<routeVars, llmVars, groqVars, inputVars, serviceVars>>

\* Stage B, then current_hypothesis
StageValidate ==
    /\ pipe.pc = "validate"
    /\ \E text \in CompletionsOf(PayloadsOver(ValidateFields)) :
          LET validation ==
                  _stage_validate(Get(pipe.claim.output, "hypothesis", Str("unknown")),
                                  pipe.claim.confidence, text, EmptyContext)
          IN  pipe' = [pipe EXCEPT
                          !.pc = "contradict",
                          !.calls = Append(@, "validate"),
                          !.text_parsed = ParseSucceeds(text),
                          !.validation = validation,
                          !.current_hypothesis =
                              Get(validation.output, "hypothesis",
                                  Get(pipe.claim.output, "hypothesis", Str("unknown")))]
    /\ UNCHANGED <<routeVars, llmVars, groqVars, inputVars, serviceVars>>

\* Stage C
StageContradict ==
    /\ pipe.pc = "contradict"
    /\ \E text \in CompletionsOf(PayloadsOver(ContradictFields)) :
          pipe' = [pipe EXCEPT
                      !.pc = "confirm",
                      !.calls = Append(@, "contradict"),
                      !.text_parsed = ParseSucceeds(text),
                      !.contradiction =
                          _stage_contradict(pipe.current_hypothesis,
                                            pipe.validation.confidence,
                                            text, EmptyContext)]
    /\ UNCHANGED <<routeVars, llmVars, groqVars, inputVars, serviceVars>>

\* Stage D and the construction of the ReasoningResult
StageConfirm ==
    /\ pipe.pc = "confirm"
    /\ \E text \in CompletionsOf(PayloadsOver(ConfirmFields)) :
          LET hypothesis_1 == pipe.current_hypothesis
              conf_1 == pipe.validation.confidence
              hypothesis_2 == Get(pipe.contradiction.output, "alternative_hypothesis",
                                  Str("none"))
              conf_2 == Get(pipe.contradiction.output, "alternative_confidence", Num(0))
              confirmation == _stage_confirm(hypothesis_1, conf_1, hypothesis_2, conf_2,
                                             text, EmptyContext)
          IN  IF ~Comparable(conf_1, conf_2)
              THEN \* conf_1 >= conf_2 raises
                   pipe' = [pipe EXCEPT !.pc = "raised", !.exception = "TypeError",
                                        !.calls = Append(@, "confirm"),
                                        !.text_parsed = ParseSucceeds(text)]
              ELSE IF Get(confirmation.output, "evidence_summary", DictVal).kind # "dict"
              THEN \* .get("supporting", []) on something that is no dict
                   pipe' = [pipe EXCEPT
                               !.pc = "raised",
                               !.exception = "AttributeError",
                               !.calls = Append(@, "confirm"),
                               !.text_parsed = ParseSucceeds(text),
                               !.confirmation = confirmation,
                               !.default_diagnosis =
                                   DefaultDiagnosis(hypothesis_1, conf_1, hypothesis_2, conf_2),
                               !.default_conf = Max(conf_1, conf_2)]
              ELSE pipe' = [pipe EXCEPT
                               !.pc = "result",
                               !.calls = Append(@, "confirm"),
                               !.text_parsed = ParseSucceeds(text),
                               !.confirmation = confirmation,
                               !.default_diagnosis =
                                   DefaultDiagnosis(hypothesis_1, conf_1, hypothesis_2, conf_2),
                               !.default_conf = Max(conf_1, conf_2),
                               !.result = ReasonResult(confirmation)]
    /\ UNCHANGED <<routeVars, llmVars, groqVars, inputVars, serviceVars>>

(* ---- the 3-stage protocol ---- *)

\* 1. Hypothesis Generation
StageHypothesis ==
    /\ pipe.pc = "hypothesis"
    /\ \E text \in CompletionsOf(PayloadsOver(HypothesisFields)) :
          pipe' = [pipe EXCEPT
                      !.pc = "adversary",
                      !.calls = Append(@, "hypothesis"),
                      !.text_parsed = ParseSucceeds(text),
                      !.claim = StageResult("hypothesis",
                                    _parse_json_safe(text, [hypotheses |-> ListVal]),
                                    EmptyContext, Num(0), ParseSucceeds(text))]
    /\ UNCHANGED <<routeVars, llmVars, groqVars, inputVars, serviceVars>>

\* 2. Adversarial Check
StageAdversary ==
    /\ pipe.pc = "adversary"
    /\ \E text \in CompletionsOf(PayloadsOver(AdversaryFields)) :
          LET out_adv == _parse_json_safe(text, [surviving_hypothesis |-> Str("Unknown")])
              result_adv == StageResult("adversary", out_adv, EmptyContext, Num(0),
                                        ParseSucceeds(text))
          IN  pipe' = [pipe EXCEPT !.pc = "judge",
                                   !.calls = Append(@, "adversary"),
                                   !.text_parsed = ParseSucceeds(text),
                                   !.validation = result_adv,
                                   !.contradiction = result_adv]
    /\ UNCHANGED <<routeVars, llmVars, groqVars, inputVars, serviceVars>>

DeepDiveResult(out_judge) ==
    [final_diagnosis |-> Get(out_judge, "final_diagnosis", Str("Unknown")),
     final_confidence |-> Num(90),
     causal_chain |-> Get(out_judge, "detailed_reasoning", Str("")),
     root_cause |-> Get(out_judge, "root_cause", Str("")),
     symptoms |-> ListVal,
     recommendation |-> ToStr(Get(out_judge, "action_plan", Str(""))),
     evidence_summary |-> DictVal]

\* 3. Final Verdict and the ReasoningResult
StageJudge ==
    /\ pipe.pc = "judge"
    /\ \E text \in CompletionsOf(PayloadsOver(JudgeFields)) :
          LET winner == Get(pipe.validation.output, "surviving_hypothesis", Str("Unknown"))
              out_judge == _parse_json_safe(text, [final_diagnosis |-> winner,
                                                   action_plan |-> DictVal])
          IN  pipe' = [pipe EXCEPT
                          !.pc = "result",
                          !.calls = Append(@, "judge"),
                          !.text_parsed = ParseSucceeds(text),
                          !.confirmation = StageResult("judge", out_judge, EmptyContext,
                                                       Num(0), ParseSucceeds(text)),
                          !.result = DeepDiveResult(out_judge)]
    /\ UNCHANGED <<routeVars, llmVars, groqVars, inputVars, serviceVars>>

(* ---- Fast Lane ---- *)

FastDefault ==
    [reasoning_trace |-> Str("Analysis failed"),
     diagnosis |-> Str("Unknown"),
     confidence |-> Num(0),
     action |-> Str("Consult expert")]

FastLaneResult(output) ==
    [final_diagnosis |-> Get(output, "diagnosis", Str("Unknown")),
     final_confidence |-> Get(output, "confidence", Num(0)),
     causal_chain |-> Get(output, "reasoning_trace", Str("")),
     root_cause |-> Get(output, "diagnosis", Str("Unknown")),
     symptoms |-> ListVal,
     recommendation |-> Get(output, "action", Str("")),
     evidence_summary |-> DictVal]

StageFastLane ==
    /\ pipe.pc = "fast_lane"
    /\ \E text \in CompletionsOf(PayloadsOver(FastFields)) :
          LET output == _parse_json_safe(text, FastDefault)
              dummy_stage == StageResult("fast_lane", output, EmptyContext,
                                         Get(output, "confidence", Num(0)),
                                         ParseSucceeds(text))
          IN  pipe' = [pipe EXCEPT !.pc = "result",
                                   !.calls = Append(@, "fast_lane"),
                                   !.text_parsed = ParseSucceeds(text),
                                   !.claim = dummy_stage,
                                   !.validation = dummy_stage,
                                   !.contradiction = dummy_stage,
                                   !.confirmation = dummy_stage,
                                   !.result = FastLaneResult(output)]
    /\ UNCHANGED <<routeVars, llmVars, groqVars, inputVars, serviceVars>>

(* ---- synthesis, backend exhaustion and the HTTP front door ---- *)

\* the pcs at which self.llm is called next; at "result" the ReasoningResult
\* is built and _generate_response makes the synthesis call
CallSites == {"claim", "validate", "contradict", "confirm",
              "hypothesis", "adversary", "judge", "fast_lane", "result"}

CallSiteOf(pc) == IF pc = "result" THEN "response" ELSE pc

\* call_llm has tried every key and raises: the exception leaves the stage
\* and process_query, no later stage runs
CallExhausted ==
    /\ pipe.pc \in CallSites
    /\ \E e \in ErrorTexts :
          pipe' = [pipe EXCEPT !.pc = "raised",
                               !.exception = "Exception",
                               !.last_error = e,
                               !.calls = Append(@, CallSiteOf(pipe.pc))]
    /\ UNCHANGED <<routeVars, llmVars, groqVars, inputVars, serviceVars>>

\* a Fast Lane that answers from its own diagnosis, without a synthesis call
_generate_response_skip_fast ==
    /\ pipe.pc = "result"
    /\ pipe' = [pipe EXCEPT !.pc = "answered",
                            !.calls = IF pipe.protocol = "fast_lane"
                                      THEN @ ELSE Append(@, "response")]
    /\ UNCHANGED <<routeVars, llmVars, groqVars, inputVars, serviceVars>>

\* process_query Stage 4: _generate_response makes the synthesis call and
\* returns its text, process_query returns
_generate_response ==
    /\ pipe.pc = "result"
    /\ pipe' = [pipe EXCEPT !.pc = "answered",
                            !.calls = Append(@, "response")]
    /\ UNCHANGED <<routeVars, llmVars, groqVars, inputVars, serviceVars>>

ApologyText == <<"I apologize, but I encountered an error. Please try again.">>

\* str(e) of the exception call_llm raises
ExceptionText(e) == <<"All keys failed. Last: ", e>>

\* trace.get("routing_mode", "UNKNOWN")
RoutingModeOf(protocol) ==
    CASE protocol = "fast_lane" -> "FAST_LANE"
      [] protocol = "deep_dive" -> "DEEP_DIVE"
      [] OTHER -> "UNKNOWN"

\* a front door that hands the exception to the HTTP layer
generate_response_reraise ==
    /\ pipe.pc \in {"answered", "raised"}
    /\ pipe' = [pipe EXCEPT
                   !.pc = "returned",
                   !.http = IF pipe.pc = "answered"
                            THEN [status |-> 200, text |-> <<"completion">>,
                                  routing_mode |-> RoutingModeOf(pipe.protocol)]
                            ELSE [status |-> 500, text |-> ExceptionText(pipe.last_error),
                                  routing_mode |-> "none"]]
    /\ UNCHANGED <<routeVars, llmVars, groqVars, inputVars, serviceVars>>

\* generate_response and the rest of chat: the answer, or the apology for any
\* exception of process_query, goes into the ChatResponse
generate_response ==
    /\ pipe.pc \in {"answered", "raised"}
    /\ pipe' = [pipe EXCEPT
                   !.pc = "returned",
                   !.http = IF pipe.pc = "answered"
                            THEN [status |-> 200, text |-> <<"completion">>,
                                  routing_mode |-> RoutingModeOf(pipe.protocol)]
                            ELSE [status |-> 200, text |-> ApologyText,
                                  routing_mode |-> "ERROR"]]
    /\ UNCHANGED <<routeVars, llmVars, groqVars, inputVars, serviceVars>>

\* the HTTP response has been sent
PipeDone ==
    /\ pipe.pc = "returned"
    /\ pipe' = PipeIdleFrame
    /\ UNCHANGED <<routeVars, llmVars, groqVars, inputVars, serviceVars>>

-----------------------------------------------------------------------------
(* Intent classification: IntentClassifier.classify and _score_intent *)

\* the keys of INTENT_PATTERNS in the order of the table, which is the order
\* classify scores them in and the order sorted() keeps among equal scores
IntentOrder == <<"vegetation_health", "water_stress", "nutrient_status",
                 "pest_disease", "zone_specific", "forecast_query",
                 "action_recommendation", "comparison", "field_comparison",
                 "general_query">>

\* len(config["keywords"])
NumKeywords(i) ==
    CASE i = "vegetation_health" -> 24
      [] i \in {"water_stress", "nutrient_status"} -> 18
      [] i \in {"pest_disease", "zone_specific"} -> 19
      [] i \in {"forecast_query", "action_recommendation"} -> 16
      [] i = "comparison" -> 15
      [] i = "field_comparison" -> 14
      [] OTHER -> 13

\* len(config["phrases"])
NumPhrases(i) ==
    CASE i \in {"vegetation_health", "nutrient_status"} -> 6
      [] i = "field_comparison" -> 10
      [] i = "general_query" -> 4
      [] OTHER -> 7

\* len(REGIONAL_KEYWORDS[intent]), 0 for an intent without regional keywords
NumRegional(i) ==
    CASE i = "vegetation_health" -> 4
      [] i \in {"water_stress", "nutrient_status", "pest_disease"} -> 3
      [] OTHER -> 0

\* What one pattern of the table finds in a query: a keyword as a substring
\* only, a keyword as a whole word, a phrase, or a regional keyword.
HitKinds == <<"keyword", "keyword_word", "phrase", "regional">>

NumHitTypes == Len(IntentOrder) * Len(HitKinds)

HitTypeAt(k) == [intent |-> IntentOrder[((k - 1) \div Len(HitKinds)) + 1],
                 kind |-> HitKinds[((k - 1) % Len(HitKinds)) + 1]]

\* the kind of the hit k
KindAt(k) == HitKinds[((k - 1) % Len(HitKinds)) + 1]

\* the hits of the query h on the patterns of intent i, in the order of h
Hits(h, i) ==
    SelectSeq(h, LAMBDA k : IntentOrder[((k - 1) \div Len(HitKinds)) + 1] = i)

\* the number of hits of one kind among the hits of one intent
CountKind(own, kind) == Len(SelectSeq(own, LAMBDA k : KindAt(k) = kind))

\* the number of patterns of one kind of intent i found in the query h
Count(h, i, kind) == CountKind(Hits(h, i), kind)

\* no more hits of intent i than the table has patterns for it
WithinTableFor(h, i) ==
    LET own == Hits(h, i)
    IN  /\ CountKind(own, "keyword") + CountKind(own, "keyword_word") <= NumKeywords(i)
        /\ CountKind(own, "phrase") <= NumPhrases(i)
        /\ CountKind(own, "regional") <= NumRegional(i)

\* no more hits than the table has patterns
WithinTable(h) == \A n \in 1..Len(IntentOrder) : WithinTableFor(h, IntentOrder[n])

\* the position of an intent in the table
TableIndex(i) == CHOOSE n \in 1..Len(IntentOrder) : IntentOrder[n] = i

\* The place of a hit in the order classify meets it: the intents in table
\* order, and for one intent the keywords (substring-only and whole-word hits
\* mixed, as the keyword list has them), then the phrases, then the regional
\* keywords.
HitRank(k) ==
    3 * ((k - 1) \div Len(HitKinds))
        + (CASE HitKinds[((k - 1) % Len(HitKinds)) + 1] = "phrase" -> 1
             [] HitKinds[((k - 1) % Len(HitKinds)) + 1] = "regional" -> 2
             [] OTHER -> 0)

\* the intents a query has a hit of
IntentsHit(h) == {HitTypeAt(h[j]).intent : j \in DOMAIN h}

\* the queries with n hits on at most maxIntents intents
RECURSIVE QueriesOfLen(_, _)
QueriesOfLen(n, maxIntents) ==
    IF n = 0 THEN {<<>>}
    ELSE {Append(p[1], p[2]) :
            p \in {q \in QueriesOfLen(n - 1, maxIntents) \X (1..NumHitTypes) :
                     /\ Len(q[1]) > 0 => HitRank(q[1][Len(q[1])]) <= HitRank(q[2])
                     /\ \/ maxIntents >= Len(IntentOrder)
                        \/ Cardinality(IntentsHit(Append(q[1], q[2]))) <= maxIntents
                     /\ WithinTableFor(Append(q[1], q[2]), HitTypeAt(q[2]).intent)}}

\* A query, as the patterns see it: the list of the hits it gives, in the
\* order classify meets them.
ClassifierQueries(maxHits, maxIntents) ==
    UNION {QueriesOfLen(n, maxIntents) : n \in 0..maxHits}

\* Scores are Python floats (IEEE 754 binary64).  A float in [0, 4) is a whole
\* number of units of 2^-57, the spacing of the floats around 0.05, and is
\* kept as <<high, low>> with the value (high * Limb + low) * 2^-57.
Limb == 536870912

Zero == <<0, 0>>
One == <<268435456, 0>>                        \* 1.0

keyword_score == <<40265318, 214748364>>       \* 0.15
word_bonus == <<13421772, 429496730>>          \* 0.05
phrase_score == <<93952409, 322122544>>        \* 0.35
multi_match_boost == <<26843545, 322122548>>   \* 0.1
regional_score == <<80530636, 429496728>>      \* 0.3

\* a < b
FloatLess(a, b) == a[1] < b[1] \/ (a[1] = b[1] /\ a[2] < b[2])

\* the spacing of the floats around a value with this high part: 53
\* significant bits
Spacing(high) ==
    CASE high < 16777216 -> 1
      [] high >= 16777216 /\ high < 33554432 -> 2
      [] high >= 33554432 /\ high < 67108864 -> 4
      [] high >= 67108864 /\ high < 134217728 -> 8
      [] high >= 134217728 /\ high < 268435456 -> 16
      [] high >= 268435456 /\ high < 536870912 -> 32
      [] OTHER -> 64

\* the nearest float to an exact sum, halves to the even neighbour
FloatRound(high, low) ==
    LET u == Spacing(high)
        r == low % u
        down == low - r
        up == \/ 2 * r > u
              \/ 2 * r = u /\ (down \div u) % 2 = 1
        rounded == IF up THEN down + u ELSE down
    IN  IF rounded = Limb THEN <<high + 1, 0>> ELSE <<high, rounded>>

\* a + b on floats
FloatAdd(a, b) ==
    FloatRound(a[1] + b[1] + ((a[2] + b[2]) \div Limb), (a[2] + b[2]) % Limb)

\* round(x, 2), in hundredths, of a float within a thousandth of a whole
\* number of hundredths
Round2(x) == ((x[1] \div 256) * 100 + 524288) \div 1048576

\* score += amount, n times
RECURSIVE AddEach(_, _, _)
AddEach(score, amount, n) ==
    IF n = 0 THEN score ELSE AddEach(FloatAdd(score, amount), amount, n - 1)

\* for kw in keywords: score += 0.15, and score += 0.05 on a whole word
RECURSIVE ScoreKeywords(_, _)
ScoreKeywords(own, score) ==
    IF own = <<>> THEN score
    ELSE IF KindAt(Head(own)) = "keyword"
         THEN ScoreKeywords(Tail(own), FloatAdd(score, keyword_score))
    ELSE IF KindAt(Head(own)) = "keyword_word"
         THEN ScoreKeywords(Tail(own),
                            FloatAdd(FloatAdd(score, keyword_score), word_bonus))
    ELSE ScoreKeywords(Tail(own), score)

\* len(matches) >= 3
ManyMatches(matches) == matches >= 3

\* _score_intent(query, config), from the hits of the query on the keywords
\* and phrases of that config
_score_intent(own) ==
    LET score == AddEach(ScoreKeywords(own, Zero), phrase_score,
                         CountKind(own, "phrase"))
    IN  IF ManyMatches(Len(own) - CountKind(own, "regional"))
        THEN FloatAdd(score, multi_match_boost) ELSE score

\* the score of one intent after the regional keywords
IntentScore(h, i) ==
    LET own == Hits(h, i)
    IN  AddEach(_score_intent(own), regional_score, CountKind(own, "regional"))

\* a score that is not capped
CapScore_none(score) == score

\* min(score, 1.0)
CapScore(score) == IF FloatLess(score, One) THEN score ELSE One

\* a table that also records the intents that scored nothing
Recorded_zero(score) == ~FloatLess(score, Zero)

\* if score > 0: the intent enters intent_scores
Recorded(score) == FloatLess(Zero, score)

\* intent_scores.items(): a dict keeps its keys in the order they were set,
\* which is the order of the table
RECURSIVE ScoredUpTo(_, _)
ScoredUpTo(h, n) ==
    IF n = 0 THEN <<>>
    ELSE IF Recorded(IntentScore(h, IntentOrder[n]))
         THEN Append(ScoredUpTo(h, n - 1),
                     [intent |-> IntentOrder[n],
                      score |-> CapScore(IntentScore(h, IntentOrder[n]))])
         ELSE ScoredUpTo(h, n - 1)

intent_scores(h) == ScoredUpTo(h, Len(IntentOrder))

\* sorted(intent_scores.items(), key=lambda x: x[1], reverse=True): the sort
\* is stable, so items with equal scores stay in the order of the dict
RECURSIVE InsertByScore(_, _)
InsertByScore(ranked, item) ==
    IF ranked = <<>> THEN <<item>>
    ELSE IF FloatLess(Head(ranked).score, item.score)
         THEN <<item>> \o ranked
         ELSE <<Head(ranked)>> \o InsertByScore(Tail(ranked), item)

RECURSIVE sorted_intents(_)
sorted_intents(items) ==
    IF items = <<>> THEN <<>>
    ELSE InsertByScore(sorted_intents(SubSeq(items, 1, Len(items) - 1)),
                       items[Len(items)])

\* _default_response()["all_intents"]
DefaultAllIntents == <<[intent |-> "general_query", score |-> 40]>>

\* primary_intent = sorted_intents[0][0], confidence = round(sorted_intents[0][1], 2),
\* all_intents = [(intent, round(score, 2)) for intent, score in sorted_intents[:3]]
classify(h) ==
    LET ranked == sorted_intents(intent_scores(h))
    IN  IF ranked = <<>>
        THEN [primary_intent |-> _default_response.primary_intent,
              confidence |-> _default_response.confidence,
              all_intents |-> DefaultAllIntents]
        ELSE [primary_intent |-> ranked[1].intent,
              confidence |-> Round2(ranked[1].score),
              all_intents |->
                  [n \in 1..(IF Len(ranked) < 3 THEN Len(ranked) ELSE 3) |->
                      [intent |-> ranked[n].intent, score |-> Round2(ranked[n].score)]]]

NoQuery == <<-1>>

ClassifierIdleFrame ==
    [pc |-> "idle", query |-> NoQuery, result |-> _default_response,
     all_intents |-> DefaultAllIntents, calls |-> 0, same |-> TRUE]

ClassifierIdle == classifier = ClassifierIdleFrame

\* classify(query), the first time and again: the classifier keeps nothing
\* between calls, and the second result is compared with the first
Classify ==
    /\ classifier.pc \in {"query", "classified"}
    /\ classifier.calls < 2
    /\ LET returned == classify(classifier.query)
           result == [primary_intent |-> returned.primary_intent,
                      confidence |-> returned.confidence]
       IN  classifier' = [classifier EXCEPT
                             !.pc = "classified",
                             !.calls = @ + 1,
                             !.result = result,
                             !.all_intents = returned.all_intents,
                             !.same = \/ classifier.calls = 0
                                      \/ /\ result = classifier.result
                                         /\ returned.all_intents = classifier.all_intents]
    /\ UNCHANGED <<routeVars, llmVars, groqVars, pipe, mapper, parser, serviceVars>>

-----------------------------------------------------------------------------
(* Priority context mapping: PriorityContextMapper *)

\* A path of the table is the sequence of its dot-separated segments.
INTENT_CONTEXT_PRIORITIES ==
    [vegetation_health |->
        [priority_1 |-> <<<<"NDVI">>, <<"EVI">>, <<"NDRE">>, <<"RECI">>,
                          <<"temporal_trends", "NDVI">>>>,
         priority_2 |-> <<<<"clustering", "stressed_patches">>, <<"anomalies">>,
                          <<"PSRI">>, <<"PRI">>>>,
         priority_3 |-> <<<<"weather", "temperature">>, <<"SMI">>, <<"B05">>,
                          <<"B08">>, <<"weather", "heat_stress">>>>,
         priority_4 |-> <<<<"SAR", "VV">>, <<"SAR", "VH">>, <<"previous_analysis">>,
                          <<"farmer_actions">>>>],
     water_stress |->
        [priority_1 |-> <<<<"SMI">>, <<"NDWI">>, <<"SAR", "VV">>, <<"SAR", "VH">>,
                          <<"soil_indicators", "moisture">>>>,
         priority_2 |-> <<<<"temporal_trends", "SMI">>,
                          <<"weather", "precipitation">>,
                          <<"weather", "evapotranspiration">>>>,
         priority_3 |-> <<<<"NDVI">>, <<"clustering", "moisture_clusters">>,
                          <<"B11">>, <<"B12">>, <<"sentinel2_bands", "B11">>>>,
         priority_4 |-> <<<<"farmer_actions", "irrigation">>, <<"forecast", "rain">>,
                          <<"previous_analysis">>>>],
     nutrient_status |->
        [priority_1 |-> <<<<"NDRE">>, <<"RECI">>, <<"MCARI">>, <<"B05">>, <<"B06">>,
                          <<"B07">>, <<"sentinel2_bands", "B05">>>>,
         priority_2 |-> <<<<"NDVI">>, <<"EVI">>, <<"temporal_trends", "NDRE">>>>,
         priority_3 |-> <<<<"SMI">>, <<"SFI">>, <<"SOMI">>,
                          <<"clustering", "nutrient_clusters">>,
                          <<"soil_indicators", "fertility">>>>,
         priority_4 |-> <<<<"farmer_actions", "fertilizer">>, <<"weather">>,
                          <<"previous_analysis">>>>],
     pest_disease |->
        [priority_1 |-> <<<<"anomalies">>, <<"PSRI">>, <<"PRI">>,
                          <<"spatial_patterns", "hotspots">>,
                          <<"clustering", "outliers">>>>,
         priority_2 |-> <<<<"NDVI">>, <<"temporal_trends", "sudden_changes">>,
                          <<"clustering", "stressed_patches">>>>,
         priority_3 |-> <<<<"weather", "humidity">>, <<"weather", "temperature">>,
                          <<"B04">>, <<"B05">>>>,
         priority_4 |-> <<<<"farmer_actions", "spraying">>, <<"previous_analysis">>,
                          <<"historical_issues">>>>],
     zone_specific |->
        [priority_1 |-> <<<<"clustering", "zone_stats">>, <<"patch_assignments">>,
                          <<"spatial_embeddings">>, <<"clustering", "clusters">>>>,
         priority_2 |-> <<<<"anomalies", "in_zone">>, <<"vegetation_indices">>,
                          <<"all_indices", "zone_values">>>>,
         priority_3 |-> <<<<"temporal_trends", "zone_specific">>,
                          <<"temporal_trends">>>>,
         priority_4 |-> <<<<"previous_analysis", "zone_notes">>,
                          <<"farmer_actions", "zone_specific">>>>],
     forecast_query |->
        [priority_1 |-> <<<<"forecast", "predictions">>, <<"temporal_trends">>,
                          <<"weather", "forecast">>, <<"weather_data">>>>,
         priority_2 |-> <<<<"NDVI">>, <<"SMI">>, <<"current_stress_level">>,
                          <<"health_summary">>>>,
         priority_3 |-> <<<<"historical_patterns">>, <<"growth_stage">>,
                          <<"clustering">>>>,
         priority_4 |-> <<<<"farmer_actions", "planned">>, <<"previous_analysis">>>>],
     action_recommendation |->
        [priority_1 |-> <<<<"health_summary">>, <<"NDVI">>, <<"SMI">>,
                          <<"anomalies">>, <<"stressed_patches">>>>,
         priority_2 |-> <<<<"weather">>, <<"weather", "forecast">>,
                          <<"clustering", "priority_zones">>>>,
         priority_3 |-> <<<<"temporal_trends">>, <<"soil_indicators">>>>,
         priority_4 |-> <<<<"farmer_actions">>, <<"previous_analysis">>,
                          <<"recommendations_history">>>>],
     comparison |->
        [priority_1 |-> <<<<"temporal_trends">>, <<"historical", "NDVI">>,
                          <<"historical", "SMI">>>>,
         priority_2 |-> <<<<"change_detection">>, <<"improvement_metrics">>>>,
         priority_3 |-> <<<<"weather", "historical">>,
                          <<"farmer_actions", "historical">>>>,
         priority_4 |-> <<<<"previous_analysis">>, <<"baseline_values">>>>],
     general_query |->
        [priority_1 |-> <<<<"NDVI">>, <<"health_summary">>, <<"weather">>,
                          <<"field_info">>>>,
         priority_2 |-> <<<<"SMI">>, <<"anomalies">>, <<"clustering", "summary">>,
                          <<"vegetation_indices">>>>,
         priority_3 |-> <<<<"temporal_trends">>, <<"forecast">>,
                          <<"soil_indicators">>>>,
         priority_4 |-> <<<<"farmer_actions">>, <<"previous_analysis">>>>]]

\* A value of the context bundle.  A dict holds its entries in items; a list
\* holds its elements as the keys of items.
BNum(n) == [kind |-> "num", num |-> n, str |-> "", items |-> <<>>]
BStr(t) == [kind |-> "str", num |-> 0, str |-> t, items |-> <<>>]
BDict(entries) == [kind |-> "dict", num |-> 0, str |-> "", items |-> entries]
BList(elements) == [kind |-> "list", num |-> 0, str |-> "",
                    items |-> [e \in elements |-> BStr(e)]]
None == [kind |-> "none", num |-> 0, str |-> "", items |-> <<>>]

\* bool(v)
Truthy(v) ==
    CASE v.kind = "num" -> v.num # 0
      [] v.kind = "str" -> v.str # ""
      [] v.kind \in {"dict", "list"} -> DOMAIN v.items # {}
      [] OTHER -> FALSE

\* key.upper() and key.lower(), for the keys a bundle of the model can hold
KeyUpper(key) == IF key = "ndvi" THEN "NDVI" ELSE key
KeyLower(key) == IF key = "NDVI" THEN "ndvi" ELSE key

\* one step of _get_nested_value: exact key, then upper case, then lower case
Step(current, key) ==
    IF current.kind # "dict" THEN None
    ELSE IF key \in DOMAIN current.items THEN current.items[key]
    ELSE IF KeyUpper(key) \in DOMAIN current.items THEN current.items[KeyUpper(key)]
    ELSE IF KeyLower(key) \in DOMAIN current.items THEN current.items[KeyLower(key)]
    ELSE None

\* paths have one or two segments
_get_nested_value(data, path) ==
    IF ~Truthy(data) \/ Len(path) = 0 THEN None
    ELSE IF Len(path) = 1 THEN Step(data, path[1])
    ELSE Step(Step(data, path[1]), path[2])

\* a key taken from the front of the path
PathKey_first(path) == path[1]

\* path.split(".")[-1]
PathKey(path) == path[Len(path)]

\* the dict filled in the order of field_paths: a later path with the same
\* key overwrites an earlier one
_extract_fields(context, field_paths) ==
    LET found == {n \in 1..Len(field_paths) :
                      _get_nested_value(context, field_paths[n]) # None}
        LastFor(key) == CHOOSE n \in found :
                            /\ PathKey(field_paths[n]) = key
                            /\ \A m \in found : PathKey(field_paths[m]) = key => m <= n
    IN  [key \in {PathKey(field_paths[n]) : n \in found} |->
             _get_nested_value(context, field_paths[LastFor(key)])]

get_context_priorities(name) ==
    IF name \in DOMAIN INTENT_CONTEXT_PRIORITIES
    THEN INTENT_CONTEXT_PRIORITIES[name]
    ELSE INTENT_CONTEXT_PRIORITIES["general_query"]

extract_priority_context(name, full_context) ==
    LET priorities == get_context_priorities(name)
    IN  [key \in DOMAIN priorities |-> _extract_fields(full_context, priorities[key])]

\* the indices build_staged_context copies into the claim context
VegIndices == {"NDVI", "EVI", "NDRE", "SMI", "NDWI"}

\* idx in veg, for a dict (a key), a list (an element) and a str (a
\* substring); on a number the test itself raises
Contains(veg, idx) ==
    CASE veg.kind \in {"dict", "list"} -> idx \in DOMAIN veg.items
      [] veg.kind = "str" -> veg.str = idx \/ (veg.str = "NDVI low" /\ idx = "NDVI")
      [] OTHER -> FALSE

NoTiers == [priority_1 |-> <<>>, priority_2 |-> <<>>,
            priority_3 |-> <<>>, priority_4 |-> <<>>]

NoStaged == [claim_context |-> <<>>, validate_context |-> <<>>,
             contradict_context |-> <<>>, confirm_context |-> <<>>]

\* the outcome of build_staged_context: the four contexts, or the exception
build_staged_context(name, full_context) ==
    LET priority_context == extract_priority_context(name, full_context)
        claim == priority_context.priority_1
        confirm == priority_context.priority_4
        veg == Get(full_context.items, "vegetation_indices", BDict(<<>>))
        \* the indices for which idx in veg and idx not in claim
        copied == {idx \in VegIndices : Contains(veg, idx) /\ idx \notin DOMAIN claim}
        claim_veg == IF Truthy(veg) THEN [idx \in copied |-> veg.items[idx]] @@ claim
                                    ELSE claim
        field_info == Get(full_context.items, "field_info", BDict(<<>>))
        claim_info ==
            IF Truthy(field_info)
            THEN [crop_type |-> Get(field_info.items, "crop_type", None),
                  area_acres |-> Get(field_info.items, "area_acres", None)] @@ claim_veg
            ELSE claim_veg
        sar == Get(full_context.items, "sar_bands", BDict(<<>>))
        confirm_sar == IF Truthy(sar) /\ "VV" \notin DOMAIN confirm
                       THEN ("SAR" :> sar) @@ confirm ELSE confirm
        farmer == Get(full_context.items, "farmer_actions", BDict(<<>>))
        confirm_farmer == IF Truthy(farmer)
                          THEN ("farmer_actions" :> farmer) @@ confirm_sar
                          ELSE confirm_sar
        prev == Get(full_context.items, "previous_analysis", BDict(<<>>))
        confirm_prev == IF Truthy(prev)
                        THEN ("previous_analysis" :> prev) @@ confirm_farmer
                        ELSE confirm_farmer
    IN  IF Truthy(veg) /\ (veg.kind = "num" \/ (veg.kind # "dict" /\ copied # {}))
        THEN \* idx in veg on a number, veg[idx] on a str or a list
             [exception |-> "TypeError", staged |-> NoStaged]
        ELSE IF Truthy(field_info) /\ field_info.kind # "dict"
        THEN \* field_info.get on something that is no dict
             [exception |-> "AttributeError", staged |-> NoStaged]
        ELSE [exception |-> "none",
              staged |-> [claim_context |-> claim_info,
                          validate_context |-> priority_context.priority_2,
                          contradict_context |-> priority_context.priority_3,
                          confirm_context |-> confirm_prev]]

\* a key the bundle does not have
Absent == [kind |-> "absent", num |-> 0, str |-> "", items |-> <<>>]

\* what the aggregator may have put under each key of the bundle
BundleChoices ==
    [NDVI : {Absent, BNum(61)},
     ndvi : {Absent, BNum(62)},
     temporal_trends : {Absent, BStr("rising"), BDict([NDVI |-> BNum(63)])},
     vegetation_indices : {Absent, BDict(<<>>), BNum(7), BStr("n/a"), BStr("NDVI low"),
                           BList({"EVI"}),
                           BDict([NDVI |-> BNum(64), NDWI |-> BNum(65)])},
     field_info : {Absent, BDict(<<>>), BStr("plot 7"),
                   BDict([crop_type |-> BStr("wheat")]),
                   BDict([crop_type |-> BStr("wheat"), area_acres |-> BNum(5)])},
     sar_bands : {Absent, BDict([VV |-> BNum(66)])},
     SAR : {Absent, BDict([VV |-> BNum(67)])},
     farmer_actions : {Absent, BDict([irrigation |-> BStr("weekly")])},
     previous_analysis : {Absent, BStr("stress in zone 2")}]

\* the bundle: the dict of the keys that are there
BundleOf(choice) ==
    BDict([key \in {k \in DOMAIN choice : choice[k] # Absent} |-> choice[key]])

\* the intents of the table and one that the table does not have
MapperIntents == DOMAIN INTENT_CONTEXT_PRIORITIES \cup {"field_comparison"}

\* the context argument of each stage call of _reason: a stage that is handed
\* the context of the stage before it
_reason_contexts_shifted(staged) ==
    [claim |-> staged.claim_context, validate |-> staged.claim_context,
     contradict |-> staged.validate_context, confirm |-> staged.contradict_context]

\* the context argument of each stage call of _reason
_reason_contexts(staged) ==
    [claim |-> staged.claim_context, validate |-> staged.validate_context,
     contradict |-> staged.contradict_context, confirm |-> staged.confirm_context]

\* context.get(key, {})
Section(context, key) == Get(context.items, key, BDict(<<>>))

\* the indices build_ultra_compact_context prints from vegetation_indices:
\* those whose value is a non-empty dict with a current value
SignalParts(veg, names) ==
    {k \in names : /\ Contains(veg, k)
                   /\ veg.items[k].kind = "dict"
                   /\ "current" \in DOMAIN veg.items[k].items}

\* build_ultra_compact_context: the bundle sections its lines are made of
build_ultra_compact_context(context) ==
    LET veg == Section(context, "vegetation_indices")
    IN  (IF SignalParts(veg, {"NDVI", "NDRE", "EVI", "SMI", "NDWI"}) # {}
         THEN {"vegetation_indices"} ELSE {})
        \cup (IF Truthy(Section(context, "weather")) THEN {"weather"} ELSE {})
        \cup (IF Truthy(Section(context, "stress_analysis"))
              THEN {"stress_analysis"} ELSE {})

\* the sections a Deep Dive stage adds to the common lines
StageSections(stage) ==
    CASE stage = "hypothesis" -> {"historical_trends"}
      [] stage = "adversary" -> {"sar_bands", "soil_indicators"}
      [] stage = "judge" -> {"farmer_profile", "farmer_actions"}
      [] OTHER -> {}

\* build_deep_dive_context: the bundle sections in the digest of the stage
build_deep_dive_context(context, stage) ==
    build_ultra_compact_context(context)
        \cup {key \in StageSections(stage) : Truthy(Section(context, key))}

NoContexts == [claim |-> <<>>, validate |-> <<>>, contradict |-> <<>>, confirm |-> <<>>]

NoDigest == [exception |-> "none", hypothesis |-> {}, adversary |-> {}, judge |-> {}]

MapperIdleFrame == [pc |-> "idle", intent |-> "general_query", bundle |-> BDict(<<>>),
                    tiers |-> NoTiers, staged |-> NoStaged, exception |-> "none",
                    contexts |-> NoContexts, digest |-> NoDigest]

MapperIdle == mapper = MapperIdleFrame

\* get_tiers
ExtractPriorityContext ==
    /\ mapper.pc = "input"
    /\ mapper' = [mapper EXCEPT
                     !.pc = "extracted",
                     !.tiers = extract_priority_context(mapper.intent, mapper.bundle)]
    /\ UNCHANGED <<routeVars, llmVars, groqVars, pipe, classifier, parser, serviceVars>>

BuildStagedContext ==
    /\ mapper.pc = "input"
    /\ LET outcome == build_staged_context(mapper.intent, mapper.bundle)
       IN  mapper' = [mapper EXCEPT
                         !.pc = IF outcome.exception = "none" THEN "built" ELSE "raised",
                         !.tiers = extract_priority_context(mapper.intent, mapper.bundle),
                         !.staged = outcome.staged,
                         !.exception = outcome.exception]
    /\ UNCHANGED <<routeVars, llmVars, groqVars, pipe, classifier, parser, serviceVars>>

\* _reason: each stage is called with its context
Reason ==
    /\ mapper.pc = "built"
    /\ mapper' = [mapper EXCEPT !.pc = "reasoned",
                                !.contexts = _reason_contexts(mapper.staged)]
    /\ UNCHANGED <<routeVars, llmVars, groqVars, pipe, classifier, parser, serviceVars>>

\* _execute_deep_dive: the three digests; veg.get raises when
\* vegetation_indices is no dict
ExecuteDeepDive ==
    /\ mapper.pc = "input"
    /\ mapper' = [mapper EXCEPT
                     !.pc = "digested",
                     !.digest =
                         IF Section(mapper.bundle, "vegetation_indices").kind # "dict"
                         THEN [NoDigest EXCEPT !.exception = "AttributeError"]
                         ELSE [exception |-> "none",
                               hypothesis |->
                                   build_deep_dive_context(mapper.bundle, "hypothesis"),
                               adversary |->
                                   build_deep_dive_context(mapper.bundle, "adversary"),
                               judge |-> build_deep_dive_context(mapper.bundle, "judge")]]
    /\ UNCHANGED <<routeVars, llmVars, groqVars, pipe, classifier, parser, serviceVars>>

-----------------------------------------------------------------------------
(* Sanitation of one payload, bare and wrapped in a fenced block *)

\* the payload wrapped in a fenced block with the language tag json
Fenced(payload) ==
    [tokens |-> <<"FENCE", "json", " ">> \o payload.tokens \o <<" ", "FENCE">>,
     body |-> payload.body]

\* the structured payloads: every JSON object of the model, holding any of
\* the Fast Lane objects
ParserPayloads ==
    {[tokens |-> t, body |-> b] : t \in JsonObjects \ {<<"{", "}">>},
                                  b \in PayloadsOver(FastFields) \ {<<>>}}
        \cup {[tokens |-> <<"{", "}">>, body |-> <<>>]}

NotParsed == [reasoning_trace |-> Str("not parsed")]

ParserIdleFrame == [pc |-> "idle", payload |-> EmptyText,
                    bare |-> NotParsed, fenced |-> NotParsed]

ParserIdle == parser = ParserIdleFrame

\* _parse_json_safe(P, default)
ParseBare ==
    /\ parser.pc = "payload"
    /\ parser.bare = NotParsed
    /\ parser' = [parser EXCEPT !.bare = _parse_json_safe(parser.payload, FastDefault)]
    /\ UNCHANGED <<routeVars, llmVars, groqVars, pipe, classifier, mapper, serviceVars>>

\* _parse_json_safe of P inside the fenced block
ParseFenced ==
    /\ parser.pc = "payload"
    /\ parser.fenced = NotParsed
    /\ parser' = [parser EXCEPT
                     !.fenced = _parse_json_safe(Fenced(parser.payload), FastDefault)]
    /\ UNCHANGED <<routeVars, llmVars, groqVars, pipe, classifier, mapper, serviceVars>>

-----------------------------------------------------------------------------
(* Chat storage: SupabaseClient.add_message, get_messages, delete_session and
   the /chat and history handlers of hf_deploy/Chatbot/app.py *)

NumSessions == 2     \* chat sessions
MaxMessages == 4     \* messages appended in one run
MaxTime == 2         \* readings of the wall clock: 0..MaxTime, two per second

Sessions == 1..NumSessions

\* get_messages(session_id, limit=100); every caller keeps the default
DefaultLimit == 100

\* datetime.isoformat(): seconds, and the fraction only when the microsecond
\* is not 0 (a reading t is second t \div 2, microsecond t % 2)
isoformat(t) == IF t % 2 = 0 THEN <<t \div 2>> ELSE <<t \div 2, t % 2>>

\* str < str of Python: the first differing character decides, and a proper
\* prefix is the smaller string
RECURSIVE StrLess(_, _)
StrLess(a, b) ==
    IF a = <<>> THEN b # <<>>
    ELSE IF b = <<>> THEN FALSE
    ELSE IF Head(a) # Head(b) THEN Head(a) < Head(b)
    ELSE StrLess(Tail(a), Tail(b))

\* the instant the backend's timestamp column holds for a created_at text
ParseTime(text) == 2 * text[1] + (IF Len(text) = 2 THEN text[2] ELSE 0)

\* one step of sorted(): the row goes behind every row whose key is not greater
RECURSIVE InsertByCreatedAt(_, _)
InsertByCreatedAt(rows, row) ==
    IF rows = <<>> THEN <<row>>
    ELSE IF StrLess(row.created_at, Head(rows).created_at) THEN <<row>> \o rows
    ELSE <<Head(rows)>> \o InsertByCreatedAt(Tail(rows), row)

\* sorted(messages, key=lambda m: m.get("created_at", "")): a stable sort
RECURSIVE sorted(_)
sorted(messages) ==
    IF messages = <<>> THEN <<>>
    ELSE InsertByCreatedAt(sorted(SubSeq(messages, 1, Len(messages) - 1)),
                           messages[Len(messages)])

\* [:limit] and .limit(limit)
Take(rows, limit) == SubSeq(rows, 1, IF Len(rows) < limit THEN Len(rows) ELSE limit)

\* .eq("session_id", s).order("created_at"): every listing of the session's
\* rows by ascending instant; the order among equal instants is the backend's
OrderedByCreatedAt(table, s) ==
    LET rows == {r \in table : r.session_id = s}
        n == Cardinality(rows)
    IN  {q \in [1..n -> rows] :
            /\ \A i, j \in 1..n : i # j => q[i] # q[j]
            /\ \A i, j \in 1..n :
                   i < j => ParseTime(q[i].created_at) <= ParseTime(q[j].created_at)}

StoreIdleFrame ==
    [client |-> FALSE, table |-> {}, memory |-> [s \in Sessions |-> <<>>],
     clock |-> 0, next_id |-> 1, appended |-> <<>>, deleted |-> {},
     pc |-> "idle", session |-> 0, read |-> [session |-> 0, rows |-> <<>>, next_id |-> 1]]

StoreIdle == store = StoreIdleFrame

\* add_message: the row goes to the backend when it is configured and the
\* insert succeeds, to the in-memory list otherwise; the id is returned
add_message(st, s, role, insert_ok) ==
    LET message_data == [id |-> st.next_id, session_id |-> s, role |-> role,
                         created_at |-> isoformat(st.clock)]
    IN  IF st.client /\ insert_ok
        THEN [st EXCEPT !.table = @ \cup {message_data},
                        !.next_id = @ + 1,
                        !.appended = Append(@, s)]
        ELSE [st EXCEPT !.memory[s] = Append(@, message_data),
                        !.next_id = @ + 1,
                        !.appended = Append(@, s)]

\* get_messages: the results it can return, the backend's listing when the
\* select succeeds and the sorted in-memory list when there is no client or
\* the select raised
get_messages(st, s) ==
    (IF st.client
     THEN {Take(q, DefaultLimit) : q \in OrderedByCreatedAt(st.table, s)}
     ELSE {})
    \cup {Take(sorted(st.memory[s]), DefaultLimit)}

\* the wall clock moves on
Tick ==
    /\ store.clock < MaxTime
    /\ store' = [store EXCEPT !.clock = @ + 1]
    /\ UNCHANGED <<routeVars, llmVars, groqVars, pipe, inputVars, predict>>

\* the wall clock is set back (datetime.now() is the local wall clock, which
\* a time synchronisation or the end of daylight saving time sets back)
ClockAdjust ==
    /\ store.clock > 0
    /\ store' = [store EXCEPT !.clock = @ - 1]
    /\ UNCHANGED <<routeVars, llmVars, groqVars, pipe, inputVars, predict>>

\* chat, first half: the history is read and the user message appended; the
\* insert attempt and the completion call that follow take time
ChatReceive(s) ==
    /\ store.pc = "idle"
    /\ store.next_id + 1 <= MaxMessages
    /\ store.clock < MaxTime
    /\ \E history \in get_messages(store, s), insert_ok \in BOOLEAN :
          store' = [add_message(store, s, "user", insert_ok) EXCEPT
                        !.pc = "replying", !.session = s,
                        !.clock = @ + 1,
                        !.read = [session |-> s, rows |-> history,
                                  next_id |-> store.next_id]]
    /\ UNCHANGED <<routeVars, llmVars, groqVars, pipe, inputVars, predict>>

\* chat, second half: generate_response has returned and the assistant
\* message is appended; an insert attempt on the backend takes time, an
\* append to the in-memory list may end within the clock's resolution
ChatReply ==
    /\ store.pc = "replying"
    /\ store.client => store.clock < MaxTime
    /\ \E insert_ok \in BOOLEAN :
          store' = [add_message(store, store.session, "assistant", insert_ok) EXCEPT
                        !.pc = "idle", !.session = 0,
                        !.clock = IF store.client THEN @ + 1 ELSE @]
    /\ UNCHANGED <<routeVars, llmVars, groqVars, pipe, inputVars, predict>>

\* GET history: get_messages(session_id)
get_history(s) ==
    /\ store.pc = "idle"
    /\ \E messages \in get_messages(store, s) :
          store' = [store EXCEPT !.read = [session |-> s, rows |-> messages,
                                           next_id |-> store.next_id]]
    /\ UNCHANGED <<routeVars, llmVars, groqVars, pipe, inputVars, predict>>

\* delete_session: the backend rows when there is a client (an error is only
\* printed), the in-memory list otherwise
delete_session(s) ==
    /\ store.pc = "idle"
    /\ s \in {store.appended[k] : k \in DOMAIN store.appended}
    /\ \E delete_ok \in BOOLEAN :
          store' = [store EXCEPT
                        !.table = IF store.client /\ delete_ok
                                  THEN {r \in @ : r.session_id # s} ELSE @,
                        !.memory[s] = IF store.client THEN @ ELSE <<>>,
                        !.deleted = @ \cup {k \in DOMAIN store.appended :
                                                store.appended[k] = s},
                        !.read = IF store.read.session = s
                                 THEN StoreIdleFrame.read ELSE @]
    /\ UNCHANGED <<routeVars, llmVars, groqVars, pipe, inputVars, predict>>

-----------------------------------------------------------------------------
(* Prediction jobs: start_prediction and run_prediction_job of
   hf_deploy/TimeSeries/app.py over FieldStorage (storage.py) *)

NumFields == 2     \* distinct field hashes

Fields == 1..NumFields

\* the statuses run_prediction_job writes before COMPLETE, in order
JobStages == <<"fetching_sar", "fetching_s2", "predicting_sar", "predicting_s2",
               "computing_indices">>

\* no metadata.json, no lock taken, no job submitted
NoField == [status |-> "none", locked |-> FALSE, job |-> "none", stage |-> 0,
            completed |-> FALSE]

NoRequest == [pc |-> "idle", field |-> 0, response |-> "none"]

PredictIdleFrame == [fields |-> [f \in Fields |-> NoField], request |-> NoRequest]

PredictIdle == predict = PredictIdleFrame

\* FieldStorage.field_exists: metadata is there and its status is COMPLETE
field_exists(f) == predict.fields[f].status = "complete"

\* FieldStorage.is_locked
is_locked(f) == predict.fields[f].locked

\* acquire_lock succeeded: PENDING is written and the job is submitted
StartJob(f) ==
    [predict.fields[f] EXCEPT !.locked = TRUE, !.status = "pending",
                              !.job = "queued", !.stage = 0]

\* start_prediction, up to "Check if already complete"
PredictCheckExists(f) ==
    /\ predict.request.pc = "idle"
    /\ predict' = [predict EXCEPT
                      !.request = IF field_exists(f)
                                  THEN [pc |-> "responded", field |-> f,
                                        response |-> "complete"]
                                  ELSE [pc |-> "check_locked", field |-> f,
                                        response |-> "none"]]
    /\ UNCHANGED <<routeVars, llmVars, groqVars, pipe, inputVars, store>>

\* start_prediction, "Check if job is running"
PredictCheckLocked ==
    /\ predict.request.pc = "check_locked"
    /\ predict' = [predict EXCEPT
                      !.request.pc = IF is_locked(predict.request.field)
                                     THEN "responded" ELSE "acquire",
                      !.request.response = IF is_locked(predict.request.field)
                                           THEN "processing" ELSE "none"]
    /\ UNCHANGED <<routeVars, llmVars, groqVars, pipe, inputVars, store>>

\* start_prediction, "Acquire lock and start job"
PredictAcquire ==
    /\ predict.request.pc = "acquire"
    /\ LET f == predict.request.field
       IN  predict' = [predict EXCEPT
                          !.fields[f] = IF is_locked(f) THEN @ ELSE StartJob(f),
                          !.request.pc = "responded",
                          !.request.response = "processing"]
    /\ UNCHANGED <<routeVars, llmVars, groqVars, pipe, inputVars, store>>

\* the PredictResponse is sent
PredictRespond ==
    /\ predict.request.pc = "responded"
    /\ predict' = [predict EXCEPT !.request = NoRequest]
    /\ UNCHANGED <<routeVars, llmVars, groqVars, pipe, inputVars, store>>

\* run_prediction_job: the next step writes its status
JobStep(f) ==
    /\ predict.fields[f].job \in {"queued", "running"}
    /\ predict.fields[f].stage < Len(JobStages)
    /\ predict' = [predict EXCEPT
                      !.fields[f].job = "running",
                      !.fields[f].stage = @ + 1,
                      !.fields[f].status = JobStages[predict.fields[f].stage + 1]]
    /\ UNCHANGED <<routeVars, llmVars, groqVars, pipe, inputVars, store>>

\* run_prediction_job: COMPLETE is written
JobComplete(f) ==
    /\ predict.fields[f].job = "running"
    /\ predict.fields[f].stage = Len(JobStages)
    /\ predict' = [predict EXCEPT
                      !.fields[f].job = "finishing",
                      !.fields[f].status = "complete",
                      !.fields[f].completed = TRUE]
    /\ UNCHANGED <<routeVars, llmVars, groqVars, pipe, inputVars, store>>

\* run_prediction_job: a step raised and ERROR is written
JobError(f) ==
    /\ predict.fields[f].job = "running"
    /\ predict' = [predict EXCEPT
                      !.fields[f].job = "finishing",
                      !.fields[f].status = "error"]
    /\ UNCHANGED <<routeVars, llmVars, groqVars, pipe, inputVars, store>>

\* run_prediction_job: finally release_lock
JobRelease(f) ==
    /\ predict.fields[f].job = "finishing"
    /\ predict' = [predict EXCEPT
                      !.fields[f].job = "none",
                      !.fields[f].locked = FALSE]
    /\ UNCHANGED <<routeVars, llmVars, groqVars, pipe, inputVars, store>>

ServicesIdle == StoreIdle /\ PredictIdle

-----------------------------------------------------------------------------
(* Specifications *)

InitRoute ==
    RouteIdle /\ LlmIdle /\ GroqIdle /\ PipeIdle /\ ClassifierIdle /\ MapperIdle /\ ParserIdle
    /\ ServicesIdle

NextRoute == ReceiveQuery \/ RouteQuery \/ RouteDone

SpecRoute == InitRoute /\ [][NextRoute]_vars

InitLlm ==
    RouteIdle /\ LlmIdle /\ GroqIdle /\ PipeIdle /\ ClassifierIdle /\ MapperIdle /\ ParserIdle
    /\ ServicesIdle

NextLlm ==
    \E c \in 1..NumCalls :
        \/ LlmStart(c)
        \/ LlmNextKey(c)
        \/ LlmSuccess(c)
        \/ LlmFailure(c)
        \/ LlmAllFailed(c)
        \/ LlmReturn(c)

SpecLlm == InitLlm /\ [][NextLlm]_vars

InitGroq ==
    RouteIdle /\ LlmIdle /\ GroqIdle /\ PipeIdle /\ ClassifierIdle /\ MapperIdle /\ ParserIdle
    /\ ServicesIdle

NextGroq == GroqStart \/ GroqAttempt \/ GroqExhausted \/ GroqReturn

SpecGroq == InitGroq /\ [][NextGroq]_vars

InitPipe ==
    RouteIdle /\ LlmIdle /\ GroqIdle /\ PipeIdle /\ ClassifierIdle /\ MapperIdle /\ ParserIdle
    /\ ServicesIdle

NextPipe ==
    \/ PipeStart
    \/ StageClaim
    \/ StageValidate
    \/ StageContradict
    \/ StageConfirm
    \/ StageHypothesis
    \/ StageAdversary
    \/ StageJudge
    \/ StageFastLane
    \/ CallExhausted
    \/ _generate_response
    \/ generate_response
    \/ PipeDone

SpecPipe == InitPipe /\ [][NextPipe]_vars

InitClassify ==
    /\ RouteIdle /\ LlmIdle /\ GroqIdle /\ PipeIdle /\ MapperIdle /\ ParserIdle
    /\ ServicesIdle
    /\ \E h \in ClassifierQueries(MaxHits, Len(IntentOrder)) :
          classifier = [ClassifierIdleFrame EXCEPT !.pc = "query", !.query = h]

NextClassify == Classify

SpecClassify == InitClassify /\ [][NextClassify]_vars

\* queries with more hits, on few intents
InitTies ==
    /\ RouteIdle /\ LlmIdle /\ GroqIdle /\ PipeIdle /\ MapperIdle /\ ParserIdle
    /\ ServicesIdle
    /\ \E h \in ClassifierQueries(MaxTiedHits, MaxIntents) :
          classifier = [ClassifierIdleFrame EXCEPT !.pc = "query", !.query = h]

SpecTies == InitTies /\ [][NextClassify]_vars

InitMapper ==
    /\ RouteIdle /\ LlmIdle /\ GroqIdle /\ PipeIdle /\ ClassifierIdle /\ ParserIdle
    /\ ServicesIdle
    /\ \E name \in MapperIntents, choice \in BundleChoices :
          mapper = [MapperIdleFrame EXCEPT !.pc = "input", !.intent = name,
                                           !.bundle = BundleOf(choice)]

NextMapper == ExtractPriorityContext \/ BuildStagedContext \/ Reason \/ ExecuteDeepDive

SpecMapper == InitMapper /\ [][NextMapper]_vars

InitParse ==
    /\ RouteIdle /\ LlmIdle /\ GroqIdle /\ PipeIdle /\ ClassifierIdle /\ MapperIdle
    /\ ServicesIdle
    /\ \E p \in ParserPayloads :
          parser = [ParserIdleFrame EXCEPT !.pc = "payload", !.payload = p]

NextParse == ParseBare \/ ParseFenced

SpecParse == InitParse /\ [][NextParse]_vars

InitStore ==
    /\ RouteIdle /\ LlmIdle /\ GroqIdle /\ PipeIdle /\ ClassifierIdle /\ MapperIdle
    /\ ParserIdle
    /\ PredictIdle
    /\ \E configured \in BOOLEAN : store = [StoreIdleFrame EXCEPT !.client = configured]

NextStore ==
    \/ Tick
    \/ ClockAdjust
    \/ ChatReply
    \/ \E s \in Sessions : ChatReceive(s) \/ get_history(s) \/ delete_session(s)

SpecStore == InitStore /\ [][NextStore]_vars

InitPredict ==
    /\ RouteIdle /\ LlmIdle /\ GroqIdle /\ PipeIdle /\ ClassifierIdle /\ MapperIdle
    /\ ParserIdle /\ StoreIdle /\ PredictIdle

NextPredict ==
    \/ PredictCheckLocked
    \/ PredictAcquire
    \/ PredictRespond
    \/ \E f \in Fields :
          \/ PredictCheckExists(f)
          \/ JobStep(f)
          \/ JobComplete(f)
          \/ JobError(f)
          \/ JobRelease(f)

SpecPredict == InitPredict /\ [][NextPredict]_vars

-----------------------------------------------------------------------------
(* C1: route_query never returns FAST_LANE for a comparison query, whatever
   the primary intent and its confidence. *)
C1_ComparisonNeverFastLane ==
    (mode \in {"FAST_LANE", "DEEP_DIVE"} /\ IsComparisonQuery(query))
        => mode = "DEEP_DIVE"

(* C2: for a query that is not a comparison query, route_query returns
   FAST_LANE exactly when the primary intent is one of vegetation_health,
   water_stress, nutrient_status and its confidence is strictly above 0.7. *)
C2_FastLaneExactly ==
    (mode \in {"FAST_LANE", "DEEP_DIVE"} /\ ~IsComparisonQuery(query))
        => (mode = "FAST_LANE"
              <=> (/\ intent.primary_intent \in
                        {"vegetation_health", "water_stress", "nutrient_status"}
                   /\ intent.confidence > 70))

\* a non-comparison query with a simple intent at exactly 0.7 has been routed
C2_Witness ==
    /\ mode = "DEEP_DIVE"
    /\ ~IsComparisonQuery(query)
    /\ query # {}
    /\ intent.primary_intent = "water_stress"
    /\ intent.confidence = 70

-----------------------------------------------------------------------------
(* C3: with several completion calls in flight, no other call's write to the
   rotation cursor falls between a call's read of the cursor and that call's
   own write: the value the call overwrites is the value it read. *)
C3_AtomicReadModifyWrite ==
    \A c \in 1..NumCalls :
        calls[c].pc = "done" => calls[c].cursor_before_write = calls[c].cursor_read

\* every entry of the log made on a key before the last one is a rate-limit
\* answer, and every entry on the last key is a success
OnlyLastKeyWorks(log) ==
    \A j \in 1..Len(log) :
        IF log[j].key < NumKeys - 1
        THEN log[j].text \in RateLimitTexts
        ELSE log[j].text = "ok"

(* C4: when credentials 1..N-1 answer every attempt with a rate-limit signal
   and credential N succeeds, call_groq returns after exactly N attempts, one
   per credential, and has not slept. *)
C4_RateLimitedPoolNoBackoff ==
    (groq.fn = "call_groq" /\ groq.pc = "returned" /\ OnlyLastKeyWorks(groq.log))
        => /\ Len(groq.log) = NumKeys
           /\ \A j \in 1..Len(groq.log) : groq.log[j].key = j - 1
           /\ groq.sleeps = <<>>

\* the call went through N-1 rate-limited keys, of both kinds of signal
C4_Witness ==
    /\ groq.fn = "call_groq"
    /\ groq.pc = "returned"
    /\ OnlyLastKeyWorks(groq.log)
    /\ Len(groq.log) = NumKeys
    /\ NumKeys > 1
    /\ \E j \in 1..Len(groq.log) : groq.log[j].text = "Error code: 429"
    /\ \E j \in 1..Len(groq.log) : groq.log[j].text = "Rate_Limit_Exceeded"

AttemptsOn(log, k) == Cardinality({j \in 1..Len(log) : log[j].key = k})

(* C5: when every attempt on every credential fails with a generic error,
   call_groq makes the full number of attempts on each credential and then
   raises one failure that carries the error of the last attempt on the last
   credential. *)
C5_GenericExhaustion ==
    (/\ groq.fn = "call_groq"
     /\ groq.pc = "raised"
     /\ \A j \in 1..Len(groq.log) : groq.log[j].text \in GenericTexts)
        => /\ \A k \in Keys : AttemptsOn(groq.log, k) = max_attempts_per_key
           /\ Len(groq.log) = NumKeys * max_attempts_per_key
           /\ groq.raised = groq.log[Len(groq.log)]
           /\ groq.raised.key = NumKeys - 1
           /\ groq.raised.attempt = max_attempts_per_key

C5_Witness ==
    /\ groq.fn = "call_groq"
    /\ groq.pc = "raised"
    /\ Len(groq.log) = NumKeys * max_attempts_per_key
    /\ \A j \in 1..Len(groq.log) : groq.log[j].text \in GenericTexts

(* C6: whenever call_groq or call_groq_whisper exhausts the pool, whatever
   the mix of rate-limit and generic failures, the failure it raises carries
   the last error observed during the call. *)
C6_CarriesLastError ==
    groq.pc = "raised" => groq.raised = groq.log[Len(groq.log)]

(* C7: a completion call starts at the credential after the one the previous
   call succeeded on (the rotation cursor is advanced past the working
   credential and the next call begins there). *)
C7_StartsAfterLastWorking ==
    (/\ groq.fn = "call_groq"
     /\ groq.pc = "attempt"
     /\ groq.log = <<>>
     /\ last_working # -1)
        => groq.key_idx = (last_working + 1) % NumKeys

-----------------------------------------------------------------------------
(* C8: in a 4-stage run whose Contradict output has contradiction_found =
   false, the tie-break default diagnosis of the Confirm stage is the
   hypothesis carried from the Validate stage, never the alternative,
   whatever alternative_hypothesis and alternative_confidence are. *)
C8_NoContradictionKeepsHypothesis ==
    (/\ pipe.protocol = "four_stage"
     /\ pipe.default_diagnosis # Unset
     /\ Get(pipe.contradiction.output, "contradiction_found", Unset) = Bool(FALSE))
        => pipe.default_diagnosis = pipe.current_hypothesis

\* the stage's output has no value under the key its confidence is read from
LacksConfidence(stage, key) == key \notin DOMAIN stage.output

(* C9: a StageResult whose payload has no confidence field has the
   confidence carried out of the previous stage: Validate, Contradict and
   Confirm of the 4-stage protocol, Adversary and Judge of the 3-stage
   protocol.  The confidence field of a stage is the key the stage reads its
   confidence from. *)
C9_ConfidenceInherited ==
    /\ (pipe.validation.stage = "validate"
            /\ LacksConfidence(pipe.validation, "confidence_updated"))
        => pipe.validation.confidence = pipe.claim.confidence
    /\ (pipe.contradiction.stage = "contradict"
            /\ LacksConfidence(pipe.contradiction, "alternative_confidence"))
        => pipe.contradiction.confidence = pipe.validation.confidence
    /\ (pipe.confirmation.stage = "confirm"
            /\ LacksConfidence(pipe.confirmation, "confidence"))
        => pipe.confirmation.confidence = pipe.contradiction.confidence
    /\ (pipe.validation.stage = "adversary"
            /\ LacksConfidence(pipe.validation, "confidence"))
        => pipe.validation.confidence = pipe.claim.confidence
    /\ (pipe.confirmation.stage = "judge"
            /\ LacksConfidence(pipe.confirmation, "confidence"))
        => pipe.confirmation.confidence = pipe.validation.confidence

(* C10: with a bundle in which no tier path resolves, the pipeline raises no
   exception whatever the completion texts are, and its ReasoningResult has
   every field set.  "Exception" is the failure of the backend itself, which
   is no matter of the completion texts. *)
C10_NeverRaisesResultComplete ==
    /\ pipe.exception \in {"none", "Exception"}
    /\ pipe.pc = "result" =>
          \A f \in DOMAIN pipe.result : pipe.result[f] # Unset

-----------------------------------------------------------------------------
\* the chain of completion calls of a protocol, synthesis last
ExpectedCalls(protocol) ==
    CASE protocol = "four_stage" ->
             <<"claim", "validate", "contradict", "confirm", "response">>
      [] protocol = "deep_dive" -> <<"hypothesis", "adversary", "judge", "response">>
      [] protocol = "fast_lane" -> <<"fast_lane", "response">>
      [] OTHER -> <<>>

(* C11: a query that has entered the pipeline and whose backend never ran out
   of credentials leaves it only after all of its stages and the synthesis
   step have run, with the synthesized answer: it is never abandoned
   part-way, whatever the completions were. *)
C11_RunsToCompletion ==
    (pipe.pc = "returned" /\ pipe.exception # "Exception")
        => /\ pipe.calls = ExpectedCalls(pipe.protocol)
           /\ pipe.http.text = <<"completion">>

(* C12: when every credential fails during a query, the text returned to the
   HTTP caller is the fixed generic retry message, with status 200, and no
   part of it is the underlying error text. *)
C12_ExhaustionGivesApology ==
    (pipe.pc = "returned" /\ pipe.exception = "Exception")
        => /\ pipe.http.status = 200
           /\ pipe.http.text = ApologyText
           /\ \A i \in 1..Len(pipe.http.text) :
                  pipe.http.text[i] \notin ErrorTexts \cup {"All keys failed. Last: "}

\* the pool ran out in the middle of a pipeline and the caller was answered
C12_Witness ==
    /\ pipe.pc = "returned"
    /\ pipe.exception = "Exception"
    /\ pipe.last_error \in RateLimitTexts
    /\ Len(pipe.calls) = 3
    /\ pipe.http.text = ApologyText

-----------------------------------------------------------------------------
IsPrefix(s, t) == Len(s) <= Len(t) /\ s = SubSeq(t, 1, Len(s))

\* the StageResult the engine holds for a call site once its text is parsed
ParsedStage(site) ==
    CASE site \in {"claim", "hypothesis"} -> pipe.claim
      [] site \in {"validate", "adversary"} -> pipe.validation
      [] site = "contradict" -> pipe.contradiction
      [] site \in {"confirm", "judge"} -> pipe.confirmation
      [] OTHER -> pipe.claim

(* C20: the completion calls of one query form one sequential chain: they
   are made in the order of the protocol's stages, a call is made only when
   the previous stage's text has been parsed into its StageResult, the
   synthesis call is last, and an answered query has made exactly one call
   per stage plus one for synthesis: 2 for Fast Lane, 4 for the 3-stage Deep
   Dive, 5 for the 4-stage protocol. *)
C20_SequentialChain ==
    /\ IsPrefix(pipe.calls, ExpectedCalls(pipe.protocol))
    /\ \A k \in 2..Len(pipe.calls) :
           ParsedStage(pipe.calls[k - 1]).stage = pipe.calls[k - 1]
    /\ pipe.pc = "answered" =>
           /\ pipe.calls = ExpectedCalls(pipe.protocol)
           /\ pipe.calls[Len(pipe.calls)] = "response"
           /\ Len(pipe.calls) = CASE pipe.protocol = "fast_lane" -> 2
                                   [] pipe.protocol = "deep_dive" -> 4
                                   [] OTHER -> 5

\* a 4-stage query has been answered after its five calls
C20_Witness ==
    /\ pipe.pc = "answered"
    /\ pipe.protocol = "four_stage"
    /\ Len(pipe.calls) = 5
    /\ pipe.confirmation.parsed

-----------------------------------------------------------------------------
(* C13: for every query, classify returns a confidence within [0,1] and a
   primary intent that is a key of the intent table or the fixed default
   general_query, however many keyword, phrase and regional hits the query
   accumulates. *)
C13_ClassifyInRange ==
    classifier.pc = "classified"
        => /\ classifier.result.confidence >= 0
           /\ classifier.result.confidence <= 100
           /\ classifier.result.primary_intent
                  \in {IntentOrder[n] : n \in 1..Len(IntentOrder)} \cup {"general_query"}

\* a query whose hits on one intent add up to more than 1.0 was classified
C13_Witness ==
    /\ classifier.pc = "classified"
    /\ FloatLess(One, IntentScore(classifier.query, classifier.result.primary_intent))
    /\ classifier.result.confidence = 100

(* C14: for every query on which every category of the intent table scores
   zero, classify returns the fixed default: general_query with confidence
   0.4. *)
C14_ZeroScoresGiveDefault ==
    (/\ classifier.pc = "classified"
     /\ \A i \in IntentNames : IntentScore(classifier.query, i) = Zero)
        => /\ classifier.result.primary_intent = "general_query"
           /\ classifier.result.confidence = 40

\* a query in which no pattern of the table is found was classified
C14_Witness ==
    /\ classifier.pc = "classified"
    /\ Len(classifier.query) = 0
    /\ \A i \in IntentNames : ~Recorded(IntentScore(classifier.query, i))
    /\ classifier.result = _default_response

-----------------------------------------------------------------------------
\* every value the bundle holds, at the top or inside one of its dicts
BundleValues(bundle) ==
    {bundle.items[k] : k \in DOMAIN bundle.items}
        \cup UNION {{bundle.items[k].items[j] : j \in DOMAIN bundle.items[k].items} :
                        k \in {d \in DOMAIN bundle.items : bundle.items[d].kind = "dict"}}

\* the tiers that have been handed out
TiersOut ==
    {mapper.tiers[t] : t \in DOMAIN mapper.tiers}
        \cup {mapper.staged[t] : t \in DOMAIN mapper.staged}

(* C15: every entry placed in any of the four tiers, by path extraction or by
   the injections of build_staged_context, has a value that the original
   bundle holds. *)
C15_NoFabrication ==
    mapper.pc \in {"extracted", "built"}
        => \A tier \in TiersOut : \A key \in DOMAIN tier :
               tier[key] \in BundleValues(mapper.bundle)

\* the last segment of a declared path
FinalSegment(path) == path[Len(path)]

AlwaysInjected == {"NDVI", "EVI", "NDRE", "SMI", "NDWI", "crop_type", "area_acres"}

(* C16: the keys of tier 1 produced by build_staged_context are final path
   segments of the priority_1 list declared for the intent, or always-injected
   keys: the five vegetation-index names, crop_type and area_acres. *)
C16_Tier1Bounded ==
    mapper.pc = "built"
        => LET declared == get_context_priorities(mapper.intent).priority_1
           IN  DOMAIN mapper.staged.claim_context
                   \subseteq {FinalSegment(declared[n]) : n \in 1..Len(declared)}
                                 \cup AlwaysInjected

\* tier 1 of an intent that declares none of them holds an injected index,
\* the crop type and a key extracted through a two-segment path
C16_Witness ==
    /\ mapper.pc = "built"
    /\ mapper.intent = "comparison"
    /\ {"NDWI", "crop_type", "temporal_trends"} \subseteq DOMAIN mapper.staged.claim_context
    /\ "NDVI" \in DOMAIN mapper.staged.claim_context

(* C17: for every intent, also one absent from the table, and every bundle,
   extract_priority_context and build_staged_context raise no error, and a
   tier of extract_priority_context holds exactly the final segments of the
   declared paths that resolve. *)
C17_NeverRaises ==
    /\ mapper.exception = "none"
    /\ mapper.pc = "extracted" =>
           \A t \in DOMAIN mapper.tiers :
               LET declared == get_context_priorities(mapper.intent)[t]
               IN  DOMAIN mapper.tiers[t] =
                       {FinalSegment(declared[n]) : n \in
                           {m \in 1..Len(declared) :
                               _get_nested_value(mapper.bundle, declared[m]) # None}}

-----------------------------------------------------------------------------
(* C18: for every structured payload P, sanitation of P wrapped in a fenced
   block with a leading language tag returns the same parsed value as
   sanitation of P unwrapped. *)
C18_FencedParsesIdentically ==
    (parser.bare # NotParsed /\ parser.fenced # NotParsed)
        => parser.fenced = parser.bare

\* every entry of the default is in the output, unchanged
HoldsDefault(output, default) ==
    \A key \in DOMAIN default : key \in DOMAIN output /\ output[key] = default[key]

\* the stage ran on a text without a parsable payload
Unparsed(stage, name) == stage.stage = name /\ ~stage.parsed

(* C19: at every stage call site, when the completion text is empty or holds
   no parsable payload, the stage output is that call site's default payload
   (Validate also carries the hypothesis; Fast Lane: diagnosis Unknown,
   confidence 0.0, action Consult expert) and no exception leaves the
   stage. *)
C19_DefaultOnUnparsable ==
    /\ Unparsed(pipe.claim, "claim") =>
           pipe.claim.output \in {ClaimDefault(EmptyText, EmptyContext),
                                  ClaimDefault(ProseText, EmptyContext)}
    /\ Unparsed(pipe.validation, "validate") =>
           /\ HoldsDefault(pipe.validation.output, ValidateDefault(pipe.claim.confidence))
           /\ DOMAIN pipe.validation.output
                  \subseteq DOMAIN ValidateDefault(pipe.claim.confidence) \cup {"hypothesis"}
    /\ Unparsed(pipe.contradiction, "contradict") =>
           pipe.contradiction.output = ContradictDefault
    /\ Unparsed(pipe.confirmation, "confirm") =>
           pipe.confirmation.output =
               ConfirmDefault(pipe.default_diagnosis, pipe.default_conf, EmptyContext)
    /\ Unparsed(pipe.claim, "hypothesis") =>
           pipe.claim.output = [hypotheses |-> ListVal]
    /\ Unparsed(pipe.validation, "adversary") =>
           pipe.validation.output = [surviving_hypothesis |-> Str("Unknown")]
    /\ Unparsed(pipe.confirmation, "judge") =>
           pipe.confirmation.output =
               [final_diagnosis |-> Get(pipe.validation.output, "surviving_hypothesis",
                                        Str("Unknown")),
                action_plan |-> DictVal]
    /\ Unparsed(pipe.claim, "fast_lane") =>
           /\ pipe.claim.output.diagnosis = Str("Unknown")
           /\ pipe.claim.output.confidence = Num(0)
           /\ pipe.claim.output.action = Str("Consult expert")
    /\ (pipe.exception \in {"TypeError", "AttributeError"}) => pipe.text_parsed


-----------------------------------------------------------------------------
\* the ids of the rows of the last get_messages result, in the order returned
ReadIds == [i \in DOMAIN store.read.rows |-> store.read.rows[i].id]

(* C21: get_messages returns the messages of a session in the order they
   were appended: a message appended earlier (smaller id) never comes after
   one appended later, so the user message of a chat turn precedes the
   assistant message of that turn. *)
C21_ReadInAppendOrder ==
    \A i, j \in DOMAIN ReadIds : i < j => ReadIds[i] < ReadIds[j]

(* C29: every message for which add_message returned an id, and whose
   session has not been deleted, is in the result of each later get_messages
   on its session, with or without a configured backend and whether or not
   an insert fell back to the in-memory list. *)
C29_AppendedIsRead ==
    \A k \in DOMAIN store.appended :
        (/\ store.appended[k] = store.read.session
         /\ k < store.read.next_id
         /\ k \notin store.deleted)
            => k \in {ReadIds[i] : i \in DOMAIN ReadIds}

-----------------------------------------------------------------------------
(* C22: every response of the /chat endpoint carries a routing_mode that is
   FAST_LANE or DEEP_DIVE, whatever the outcome of the reasoning pipeline,
   a failed one included. *)
C22_RoutingModeOfTwo ==
    (pipe.pc = "returned" /\ pipe.http.status = 200)
        => pipe.http.routing_mode \in {"FAST_LANE", "DEEP_DIVE"}

-----------------------------------------------------------------------------
(* C23: prediction processing is idempotent per field: once a job of a field
   has written COMPLETE, the stored status stays COMPLETE, so no /predict
   request for the field starts another job or resets the status, under
   every interleaving of requests with the job's completion and its release
   of the lock. *)
C23_CompleteIsFinal ==
    \A f \in Fields :
        predict.fields[f].completed
            => /\ predict.fields[f].status = "complete"
               /\ predict.fields[f].job \in {"finishing", "none"}

-----------------------------------------------------------------------------
\* bundle[key], when the bundle holds something truthy under the key
Held(key) == key \in DOMAIN mapper.bundle.items /\ Truthy(mapper.bundle.items[key])

(* C26: for every intent and every bundle, the result of build_staged_context
   has crop type and field size in tier 1 when the bundle holds field
   information, and has the band summary (under SAR) and the farmer-action log
   held by the bundle in tier 4, whatever the priority table resolved for
   those tiers. *)
C26_InjectionsPresent ==
    mapper.pc = "built" =>
        /\ Held("field_info") =>
               {"crop_type", "area_acres"} \subseteq DOMAIN mapper.staged.claim_context
        /\ Held("sar_bands") =>
               /\ "SAR" \in DOMAIN mapper.staged.confirm_context
               /\ mapper.staged.confirm_context["SAR"] = mapper.bundle.items["sar_bands"]
        /\ Held("farmer_actions") =>
               /\ "farmer_actions" \in DOMAIN mapper.staged.confirm_context
               /\ mapper.staged.confirm_context["farmer_actions"]
                      = mapper.bundle.items["farmer_actions"]

-----------------------------------------------------------------------------
\* the two competing hypotheses and confidences _reason hands to _stage_confirm
Entered ==
    [hypothesis_1 |-> pipe.current_hypothesis,
     conf_1 |-> pipe.validation.confidence,
     hypothesis_2 |-> Get(pipe.contradiction.output, "alternative_hypothesis", Str("none")),
     conf_2 |-> Get(pipe.contradiction.output, "alternative_confidence", Num(0))]

(* C25: in the Confirm stage, when the completion text holds no parsable
   payload, the final diagnosis and the confidence are those of the competing
   hypothesis that entered with the higher confidence, and on equal
   confidences those of the hypothesis carried from the Validate stage. *)
C25_DefaultToHigherConfidence ==
    Unparsed(pipe.confirmation, "confirm") =>
        LET e == Entered
            alternative_higher == IsNumber(e.conf_1) /\ IsNumber(e.conf_2)
                                      /\ e.conf_2.num > e.conf_1.num
        IN  /\ pipe.confirmation.output.final_diagnosis =
                   (IF alternative_higher THEN e.hypothesis_2 ELSE e.hypothesis_1)
            /\ pipe.confirmation.output.confidence =
                   (IF alternative_higher THEN e.conf_2 ELSE e.conf_1)
            /\ pipe.confirmation.confidence = pipe.confirmation.output.confidence

\* the Confirm text was unusable and the two confidences were equal numbers
C25_Witness ==
    /\ Unparsed(pipe.confirmation, "confirm")
    /\ IsNumber(Entered.conf_1) /\ IsNumber(Entered.conf_2)
    /\ Entered.conf_1.num = Entered.conf_2.num
    /\ Entered.hypothesis_1 # Entered.hypothesis_2
    /\ pipe.confirmation.output.final_diagnosis = Entered.hypothesis_1

-----------------------------------------------------------------------------
\* the staged context each stage of the 4-stage protocol is assigned
OwnTier ==
    [claim |-> mapper.staged.claim_context, validate |-> mapper.staged.validate_context,
     contradict |-> mapper.staged.contradict_context,
     confirm |-> mapper.staged.confirm_context]

(* C24: no stage reads a tier other than its own: in the 4-stage protocol the
   context of the Claim, Validate, Contradict and Confirm stage is tier 1, 2,
   3 and 4 respectively and nothing else, and in the 3-stage protocol the
   sections reserved for the Adversary and the Judge digest are never in the
   Hypothesis digest. *)
C24_OwnTierOnly ==
    /\ mapper.pc = "reasoned" =>
           \A stage \in DOMAIN mapper.contexts : mapper.contexts[stage] = OwnTier[stage]
    /\ mapper.pc = "digested" =>
           /\ mapper.digest.hypothesis
                  \cap {"sar_bands", "soil_indicators", "farmer_profile", "farmer_actions"}
                  = {}
           /\ mapper.digest.adversary \cap {"farmer_profile", "farmer_actions"} = {}
           /\ mapper.digest.judge \cap {"sar_bands", "soil_indicators"} = {}

\* the four tiers differ and each stage has got its own
C24_Witness ==
    /\ mapper.pc = "reasoned"
    /\ \A a, b \in DOMAIN OwnTier : a # b => OwnTier[a] # OwnTier[b]
    /\ \A stage \in DOMAIN OwnTier : DOMAIN OwnTier[stage] # {}
    /\ mapper.contexts.validate = mapper.staged.validate_context

-----------------------------------------------------------------------------
\* the failures after which call_groq has to sleep: generic, and not the last
\* attempt on the credential
IsBackedOff(e) == e.text \in GenericTexts /\ e.attempt < 3

\* the seconds slept after the k-th generic failure on a credential
ExpectedSleeps(log) ==
    LET failures == SelectSeq(log, IsBackedOff)
    IN  [j \in 1..Len(failures) |-> 2 ^ (failures[j].attempt - 1)]

(* C27: within one call of call_groq each credential gets at most 3 attempts,
   numbered 1, 2, 3; after the k-th generic failure on a credential (k < 3)
   the call sleeps 2^(k-1) seconds, it does not sleep after the last attempt
   nor after a rate-limit signal, a rate-limit signal ends the attempts on
   its credential, and so a call makes at most 3N attempts and 2N sleeps. *)
C27_BoundedAttemptsAndBackoff ==
    groq.fn = "call_groq" =>
        /\ \A k \in Keys : AttemptsOn(groq.log, k) <= 3
        /\ \A j \in 1..Len(groq.log) :
               groq.log[j].attempt =
                   Cardinality({i \in 1..j : groq.log[i].key = groq.log[j].key})
        /\ groq.sleeps = ExpectedSleeps(groq.log)
        /\ \A i, j \in 1..Len(groq.log) :
               (i < j /\ groq.log[i].text \in RateLimitTexts)
                   => groq.log[j].key # groq.log[i].key
        /\ Len(groq.log) <= 3 * NumKeys
        /\ Len(groq.sleeps) <= 2 * NumKeys

\* a call with the most sleeps, and one that a rate-limit signal cut short
C27_Witness ==
    /\ groq.fn = "call_groq"
    /\ groq.pc = "raised"
    /\ Len(groq.sleeps) = 2 * (NumKeys - 1) + 1
    /\ groq.log[Len(groq.log)].text \in RateLimitTexts
    /\ groq.log[Len(groq.log)].attempt = 2

-----------------------------------------------------------------------------
(* C28: under every interleaving of concurrent completion calls, one call
   attempts each credential at most once, and it raises its "all keys failed"
   failure only after it has attempted every credential of the pool. *)
C28_EachKeyOncePerCall ==
    \A c \in 1..NumCalls :
        /\ \A i, j \in DOMAIN calls[c].tried :
              i # j => calls[c].tried[i] # calls[c].tried[j]
        /\ calls[c].pc = "failed"
              => {calls[c].tried[i] : i \in DOMAIN calls[c].tried} = Keys

-----------------------------------------------------------------------------
(* C30: classify is deterministic, a second call with the same query returns
   what the first returned; and categories that are reported with the same
   score are ranked in the order of the intent table, so that among the
   categories tied for the highest score the one declared earliest is the
   primary intent and all_intents lists the tied ones in table order. *)
C30_DeterministicTiesInTableOrder ==
    classifier.pc = "classified"
        => /\ classifier.same
           /\ classifier.result.primary_intent = classifier.all_intents[1].intent
           /\ \A a, b \in DOMAIN classifier.all_intents :
                  (a < b /\ classifier.all_intents[a].score = classifier.all_intents[b].score)
                      => TableIndex(classifier.all_intents[a].intent)
                             < TableIndex(classifier.all_intents[b].intent)

====
